---- MODULE Spec2Model ----
(***************************************************************************)
(* Memory usage analysis of the Move prover (usage_analysis.rs) together   *)
(* with the part of the specification expression model (ast.rs) that it    *)
(* consumes.                                                               *)
(***************************************************************************)
EXTENDS Integers, Sequences, FiniteSets, TLC

VARIABLES
    delegated,  \* [Funs -> BOOLEAN]: is_invariant_checking_delegated of each function
    targets,    \* [Funs -> Option(UsageState)]: the UsageState annotation of each target
    cur,        \* Option(function): the function `process` is working on
    pc,         \* position inside `process`
    state,      \* the UsageState the transfer function is mutating
    fork,       \* Option(UsageState): exit state of the branching block
    pend,       \* Option(UsageState): entry state already stored for the join block
    nsteps,     \* bytecodes executed plus declared conditions folded so far
    prog,       \* fixed-point runs: [Funs -> program text]
    state_map,  \* fixed-point runs: [block -> Option([pre, post])]
    work_list,  \* fixed-point runs: queue of block ids
    iters,      \* fixed-point runs: worklist iterations of the current function
    round,      \* fixed-point runs: components left, round number, members left
    expr,       \* expression runs: the expression a function of ExpData is applied to
    result,     \* expression runs: Option of the function applied and what it returned
    storage,    \* proxy runs: the database the proxy reads (readable, epoch, configs)
    reconfig_subscriptions, \* proxy runs: the subscriptions handed to the proxy
    receivers,  \* proxy runs: the receiving end of each subscription
    on_chain_configs,       \* proxy runs: Option of the payload the proxy has stored
    outcome     \* proxy runs: Option of the last call on the proxy and what it did

vars == <<delegated, targets, cur, pc, state, fork, pend, nsteps,
          prog, state_map, work_list, iters, round, expr, result,
          storage, reconfig_subscriptions, receivers, on_chain_configs, outcome>>

-----------------------------------------------------------------------------
(* Bounds of the model *)

\* bytecodes executed plus declared conditions folded in one run of the pipeline
MaxSteps == 2

-----------------------------------------------------------------------------
(* Option values *)

None == <<>>
Some(x) == <<x>>
IsSome(o) == o # <<>>
Unwrap(o) == o[1]

-----------------------------------------------------------------------------
(* Types, struct instantiations, functions *)

\* "#0" is the type parameter 0, "u64" a ground type
TypeParam == "#0"

Funs == {"p", "q"}

QualifiedInstId(id, inst) == [id |-> id, inst |-> inst]

R_T == QualifiedInstId("R", <<"#0">>)
R_u64 == QualifiedInstId("R", <<"u64">>)
W == QualifiedInstId("W", <<>>)

Mems == {R_T}

\* type argument lists of a call
Insts == {<<>>, <<"u64">>, <<"#0">>}

Type_instantiate(ty, params) ==
    IF params = <<>> THEN ty
    ELSE IF ty = TypeParam THEN params[1] ELSE ty

instantiate_ref(mem, params) ==
    IF params = <<>> THEN mem
    ELSE QualifiedInstId(mem.id,
             [i \in 1..Len(mem.inst) |-> Type_instantiate(mem.inst[i], params)])

-----------------------------------------------------------------------------
(* SetDomain and JoinResult *)

Unchanged == "Unchanged"
Changed == "Changed"

SetDomain_join(self, other) ==
    [value |-> self \cup other,
     result |-> IF other \subseteq self THEN Unchanged ELSE Changed]

-----------------------------------------------------------------------------
(* MemoryUsage *)

MemoryUsage_default == [direct |-> {}, transitive |-> {}, all |-> {}]

add_direct_replaces(self, mem) ==
    [self EXCEPT !.direct = {mem}, !.all = self.transitive \cup {mem}]

add_direct(self, mem) ==
    [self EXCEPT !.direct = @ \cup {mem}, !.all = @ \cup {mem}]

add_transitive_forgets_all(self, mem) == [self EXCEPT !.transitive = @ \cup {mem}]

add_transitive(self, mem) ==
    [self EXCEPT !.transitive = @ \cup {mem}, !.all = @ \cup {mem}]

get_all_inst(self, inst) == {instantiate_ref(mem, inst) : mem \in self.all}

MemoryUsage_join_overwrites(self, other) ==
    LET d == SetDomain_join(self.direct, other.direct)
        t == SetDomain_join(self.transitive, other.transitive)
    IN  [value |-> [direct |-> d.value, transitive |-> t.value, all |-> other.all],
         result |-> IF d.result = Unchanged /\ t.result = Unchanged
                    THEN Unchanged ELSE Changed]

MemoryUsage_join(self, other) ==
    LET d == SetDomain_join(self.direct, other.direct)
        t == SetDomain_join(self.transitive, other.transitive)
        a == SetDomain_join(self.all, other.all)
    IN  [value |-> [direct |-> d.value, transitive |-> t.value, all |-> a.value],
         result |-> IF d.result = Unchanged /\ t.result = Unchanged
                       /\ a.result = Unchanged
                    THEN Unchanged ELSE Changed]

-----------------------------------------------------------------------------
(* UsageState and its generated inserters *)

UsageState_default ==
    [accessed |-> MemoryUsage_default, modified |-> MemoryUsage_default,
     assumed |-> MemoryUsage_default, asserted |-> MemoryUsage_default]

Categories == {"accessed", "modified", "assumed", "asserted"}
Kinds == {"direct", "transitive", "all"}

\* self.$method(mem) for the method named by the macro argument
call_method(method, self, mem) ==
    IF method = "add_direct" THEN add_direct(self, mem) ELSE add_transitive(self, mem)

\* self.$field.$method(mem.clone()); self.accessed.$method(mem);
generate_inserter(field, method, self, mem) ==
    LET s1 == [self EXCEPT ![field] = call_method(method, @, mem)]
    IN  [s1 EXCEPT !.accessed = call_method(method, @, mem)]

\* for mem in mems { self.[<$method _ $field>](mem); }
RECURSIVE generate_inserter_iter(_, _, _, _)
generate_inserter_iter(field, method, self, mems) ==
    IF mems = {} THEN self
    ELSE LET mem == CHOOSE m \in mems : TRUE
         IN  generate_inserter_iter(field, method,
                 generate_inserter(field, method, self, mem), mems \ {mem})

add_direct_accessed_and_transitive(self, mem) ==
    [generate_inserter("accessed", "add_direct", self, mem) EXCEPT
        !.accessed = add_transitive(@, mem)]
add_direct_accessed(self, mem) == generate_inserter("accessed", "add_direct", self, mem)
add_direct_modified_only(self, mem) ==
    [self EXCEPT !.modified = add_direct(@, mem)]
add_direct_modified(self, mem) == generate_inserter("modified", "add_direct", self, mem)
add_direct_assumed(self, mem) == generate_inserter("assumed", "add_direct", self, mem)
add_direct_asserted(self, mem) == generate_inserter("asserted", "add_direct", self, mem)

add_direct_accessed_iter(self, mems) ==
    generate_inserter_iter("accessed", "add_direct", self, mems)
add_direct_modified_iter(self, mems) ==
    generate_inserter_iter("modified", "add_direct", self, mems)
add_direct_assumed_iter(self, mems) ==
    generate_inserter_iter("assumed", "add_direct", self, mems)
add_direct_asserted_iter(self, mems) ==
    generate_inserter_iter("asserted", "add_direct", self, mems)

add_transitive_accessed_iter(self, mems) ==
    generate_inserter_iter("accessed", "add_transitive", self, mems)
add_transitive_modified_iter(self, mems) ==
    generate_inserter_iter("modified", "add_transitive", self, mems)
add_transitive_assumed_iter(self, mems) ==
    generate_inserter_iter("assumed", "add_transitive", self, mems)
add_transitive_asserted_iter(self, mems) ==
    generate_inserter_iter("asserted", "add_transitive", self, mems)

subsume_direct_into_transitive(self, callee, inst) ==
    LET s1 == add_transitive_accessed_iter(self, get_all_inst(callee.accessed, inst))
        s2 == add_transitive_modified_iter(s1, get_all_inst(callee.modified, inst))
        s3 == add_transitive_assumed_iter(s2, get_all_inst(callee.assumed, inst))
    IN  add_transitive_asserted_iter(s3, get_all_inst(callee.asserted, inst))

subsume_callee_as_direct(self, callee, inst) ==
    LET s1 == add_direct_accessed_iter(self, get_all_inst(callee.accessed, inst))
        s2 == add_direct_modified_iter(s1, get_all_inst(callee.modified, inst))
        s3 == add_direct_assumed_iter(s2, get_all_inst(callee.assumed, inst))
    IN  add_direct_asserted_iter(s3, get_all_inst(callee.asserted, inst))

subsume_transitive_into_direct(self, callee, inst) ==
    LET s1 == add_direct_accessed_iter(self, get_all_inst(callee.accessed, inst))
        s2 == add_direct_modified_iter(s1, get_all_inst(callee.modified, inst))
        s3 == add_direct_assumed_iter(s2, get_all_inst(callee.assumed, inst))
    IN  add_direct_asserted_iter(s3, get_all_inst(callee.asserted, inst))

subsume_callee_as_transitive(self, callee, inst) ==
    LET s1 == add_transitive_accessed_iter(self, get_all_inst(callee.accessed, inst))
        s2 == add_transitive_modified_iter(s1, get_all_inst(callee.modified, inst))
        s3 == add_transitive_assumed_iter(s2, get_all_inst(callee.assumed, inst))
    IN  add_transitive_asserted_iter(s3, get_all_inst(callee.asserted, inst))

\* a join that stops at the first record that changed
UsageState_join_short_circuits(self, other) ==
    LET ac == MemoryUsage_join(self.accessed, other.accessed)
    IN  IF ac.result = Changed
        THEN [value |-> [self EXCEPT !.accessed = ac.value], result |-> Changed]
        ELSE LET mo == MemoryUsage_join(self.modified, other.modified)
                 am == MemoryUsage_join(self.assumed, other.assumed)
                 at == MemoryUsage_join(self.asserted, other.asserted)
             IN  [value |-> [accessed |-> ac.value, modified |-> mo.value,
                             assumed |-> am.value, asserted |-> at.value],
                  result |-> IF mo.result = Unchanged /\ am.result = Unchanged
                                /\ at.result = Unchanged
                             THEN Unchanged ELSE Changed]

UsageState_join_always_changed(self, other) ==
    [value |-> self, result |-> Changed]

UsageState_join(self, other) ==
    LET ac == MemoryUsage_join(self.accessed, other.accessed)
        mo == MemoryUsage_join(self.modified, other.modified)
        am == MemoryUsage_join(self.assumed, other.assumed)
        at == MemoryUsage_join(self.asserted, other.asserted)
    IN  [value |-> [accessed |-> ac.value, modified |-> mo.value,
                    assumed |-> am.value, asserted |-> at.value],
         result |-> IF ac.result = Unchanged /\ mo.result = Unchanged
                       /\ am.result = Unchanged /\ at.result = Unchanged
                    THEN Unchanged ELSE Changed]

-----------------------------------------------------------------------------
(* Expressions: ExpData nodes, the attribute tables of the environment *)

NoOper == [op |-> "none", label |-> None, fid |-> "none", labels |-> None]
Oper(op) == [NoOper EXCEPT !.op = op]
\* Operation::Exists(label), Operation::Global(label)
OpExists(label) == [NoOper EXCEPT !.op = "Exists", !.label = label]
OpGlobal(label) == [NoOper EXCEPT !.op = "Global", !.label = label]
\* Operation::Function(mid, fid, labels)
OpFunction(fid, labels) == [NoOper EXCEPT !.op = "Function", !.fid = fid, !.labels = labels]
\* Operation::Select(mid, sid, field_id)
OpSelect(field) == [NoOper EXCEPT !.op = "Select", !.fid = field]

Value(id) == [kind |-> "Value", id |-> id, oper |-> NoOper, args |-> <<>>]
Call(id, oper, args) == [kind |-> "Call", id |-> id, oper |-> oper, args |-> args]
IfElse(id, c, t, e) == [kind |-> "IfElse", id |-> id, oper |-> NoOper, args |-> <<c, t, e>>]

Invalid(id) == [kind |-> "Invalid", id |-> id]
LocalVar(id, sym) == [kind |-> "LocalVar", id |-> id, sym |-> sym]
Temporary(id, idx) == [kind |-> "Temporary", id |-> id, idx |-> idx]
Invoke(id, target, args) == [kind |-> "Invoke", id |-> id, target |-> target, args |-> args]
\* LocalVarDecl { id, name, binding }
LocalVarDecl(id, name, binding) == [id |-> id, name |-> name, binding |-> binding]
Lambda(id, decls, body) == [kind |-> "Lambda", id |-> id, decls |-> decls, body |-> body]
Block(id, decls, body) == [kind |-> "Block", id |-> id, decls |-> decls, body |-> body]
\* Quant(id, kind, ranges, triggers, condition, body), a range being <<decl, exp>>
Quant(id, qkind, ranges, triggers, condition, body) ==
    [kind |-> "Quant", id |-> id, qkind |-> qkind, ranges |-> ranges,
     triggers |-> triggers, condition |-> condition, body |-> body]

\* the ghost memory struct and the prefix that marks its name
GHOST_MEMORY_PREFIX == <<"Ghost$">>
G == QualifiedInstId("G", <<>>)

\* symbol_pool().string(sid.symbol()), as a sequence of tokens
SymbolString(sid) ==
    CASE sid = "G" -> <<"Ghost$", "g">>
      [] OTHER -> <<sid>>

starts_with(s, prefix) ==
    Len(s) >= Len(prefix) /\ SubSeq(s, 1, Len(prefix)) = prefix

AllMems == Mems \cup {G}

\* env.get_node_instantiation(id): struct types for Exists / Global nodes,
\* type arguments for calls of specification functions
get_node_instantiation(id) ==
    CASE id = 3 -> <<R_T>>
      [] id = 6 -> <<"u64">>
      [] id = 7 -> <<"u64">>
      [] id = 10 -> <<G>>
      [] id = 12 -> <<R_T>>
      [] id = 14 -> <<W>>
      [] id = 51 -> <<G>>
      [] id = 53 -> <<R_T>>
      [] OTHER -> <<>>

\* env.get_node_type(id).require_struct() of the nodes whose type is a struct
get_node_type_struct(id) ==
    CASE id = 10 -> G
      [] id = 12 -> R_T
      [] id = 51 -> G
      [] id = 53 -> R_T
      [] OTHER -> R_T

\* SpecFunDecl.used_memory, in the iteration order of the BTreeSet
SpecFun_used_memory(fid) ==
    CASE fid = "sf_mem" -> <<R_T>>
      [] OTHER -> <<>>

e_true == Value(1)
e_addr == Value(2)
e_exists_R == Call(3, OpExists(None), <<e_addr>>)
e_fun_mem == Call(6, OpFunction("sf_mem", None), <<e_addr>>)
e_fun_mem_at == Call(7, OpFunction("sf_mem", Some(<<"L1">>)), <<e_addr>>)
e_fun_pure == Call(8, OpFunction("sf_pure", None), <<e_addr>>)
e_ite == IfElse(9, e_exists_R, e_fun_mem_at, e_true)
e_global_G == Call(10, OpGlobal(None), <<e_addr>>)
e_select_G == Call(11, OpSelect("v"), <<e_global_G>>)
e_global_R_at == Call(12, OpGlobal(Some("L1")), <<e_addr>>)
e_select_R == Call(13, OpSelect("v"), <<e_global_R_at>>)

e_exists_W == Call(14, OpExists(None), <<e_addr>>)

e_global_G_at == Call(51, OpGlobal(Some("L1")), <<e_addr>>)
e_select_G_at == Call(52, OpSelect("v"), <<e_global_G_at>>)
e_global_R == Call(53, OpGlobal(None), <<e_addr>>)
e_select_R_now == Call(54, OpSelect("v"), <<e_global_R>>)

Exps == {e_true, e_exists_R, e_fun_mem_at, e_select_G}

\* the additional expressions of a condition: a ghost memory target, and the
\* shapes that are none: a labelled read, a struct that is no ghost memory, no select
AdditionalExps == {e_select_G, e_select_R, e_select_G_at, e_select_R_now, e_global_G}

RECURSIVE Flatten(_)
Flatten(seqs) == IF seqs = <<>> THEN <<>> ELSE Head(seqs) \o Flatten(Tail(seqs))

\* the binding of a declaration, when it has one
BindingOf(decl) == IF IsSome(decl.binding) THEN <<Unwrap(decl.binding)>> ELSE <<>>

\* the body of a quantifier visited before its ranges, triggers and filter
Children_body_first(e) ==
    CASE e.kind \in {"Call", "IfElse"} -> e.args
      [] e.kind = "Invoke" -> <<e.target>> \o e.args
      [] e.kind = "Lambda" -> <<e.body>>
      [] e.kind = "Quant" ->
            <<e.body>>
            \o Flatten([i \in 1..Len(e.ranges) |->
                        BindingOf(e.ranges[i][1]) \o <<e.ranges[i][2]>>])
            \o Flatten(e.triggers)
            \o (IF IsSome(e.condition) THEN <<Unwrap(e.condition)>> ELSE <<>>)
      [] e.kind = "Block" ->
            Flatten([i \in 1..Len(e.decls) |-> BindingOf(e.decls[i])]) \o <<e.body>>
      [] OTHER -> <<>>

\* the sub-expressions that visit_pre_post descends into, in order
Children(e) ==
    CASE e.kind \in {"Call", "IfElse"} -> e.args
      [] e.kind = "Invoke" -> <<e.target>> \o e.args
      [] e.kind = "Lambda" -> <<e.body>>
      [] e.kind = "Quant" ->
            Flatten([i \in 1..Len(e.ranges) |->
                        BindingOf(e.ranges[i][1]) \o <<e.ranges[i][2]>>])
            \o Flatten(e.triggers)
            \o (IF IsSome(e.condition) THEN <<Unwrap(e.condition)>> ELSE <<>>)
            \o <<e.body>>
      [] e.kind = "Block" ->
            Flatten([i \in 1..Len(e.decls) |-> BindingOf(e.decls[i])]) \o <<e.body>>
      [] OTHER -> <<>>

RECURSIVE used_memory(_)
used_memory(e) ==
    LET below == UNION {used_memory(Children(e)[i]) : i \in 1..Len(Children(e))}
        here ==
            IF e.kind = "Call" /\ e.oper.op \in {"Exists", "Global"}
            THEN {<<get_node_instantiation(e.id)[1], e.oper.label>>}
            ELSE IF e.kind = "Call" /\ e.oper.op = "Function"
            THEN LET um == SpecFun_used_memory(e.oper.fid)
                 IN  {<<instantiate_ref(um[i], get_node_instantiation(e.id)),
                        IF IsSome(e.oper.labels)
                        THEN Some(Unwrap(e.oper.labels)[i]) ELSE None>>
                      : i \in 1..Len(um)}
            ELSE {}
    IN  below \cup here

\* a read of the ghost memory at a label taken as a target too
extract_ghost_mem_access_at_any_label(e) ==
    IF e.kind = "Call" /\ e.oper.op = "Select"
    THEN LET g == e.args[1]
         IN  IF g.kind = "Call" /\ g.oper.op = "Global"
                /\ starts_with(SymbolString(get_node_type_struct(g.id).id),
                               GHOST_MEMORY_PREFIX)
             THEN Some(get_node_type_struct(g.id))
             ELSE None
    ELSE None

extract_ghost_mem_access(e) ==
    IF e.kind = "Call" /\ e.oper.op = "Select"
    THEN LET g == e.args[1]
         IN  IF g.kind = "Call" /\ g.oper.op = "Global" /\ g.oper.label = None
                /\ starts_with(SymbolString(get_node_type_struct(g.id).id),
                               GHOST_MEMORY_PREFIX)
             THEN Some(get_node_type_struct(g.id))
             ELSE None
    ELSE None

\* only the memory of the current state, without the memory read at a label
Usages_unlabelled_only(used) == {u[1] : u \in {x \in used : x[2] = None}}

\* .map(|(usage, _)| usage)
Usages(used) == {u[1] : u \in used}

-----------------------------------------------------------------------------
(* Traversal, free variables, purity and rewriting of expressions *)

\* env.get_node_type(id) of the nodes that are variables or temporaries
get_node_type(id) ==
    CASE id \in {21, 26, 29} -> "u64"
      [] id \in {22, 30} -> "bool"
      [] id \in {23, 27, 28} -> "address"
      [] id = 24 -> "&mut u64"
      [] id = 25 -> "u64"
      [] OTHER -> "bool"

is_mutable_reference(ty) == ty = "&mut u64"

\* the calls visitor(false, e) and visitor(true, e) in the order visit_pre_post makes them
RECURSIVE visit_pre_post(_)
visit_pre_post(e) ==
    <<[up |-> FALSE, e |-> e]>>
    \o Flatten([i \in 1..Len(Children(e)) |-> visit_pre_post(Children(e)[i])])
    \o <<[up |-> TRUE, e |-> e]>>

\* the calls of the visitor that visit makes: those with up = true
IsUp(ev) == ev.up

visit(e) == SelectSeq(visit_pre_post(e), IsUp)

\* the names a Lambda, Block or Quant node declares
DeclNames(e) ==
    CASE e.kind \in {"Lambda", "Block"} -> [i \in 1..Len(e.decls) |-> e.decls[i].name]
      [] e.kind = "Quant" -> [i \in 1..Len(e.ranges) |-> e.ranges[i][1].name]
      [] OTHER -> <<>>

InSeq(x, seq) == \E i \in 1..Len(seq) : seq[i] = x

\* shadowed.iter().position(|s| *s == sym) followed by shadowed.remove(pos)
RemoveFirst(seq, x) ==
    IF InSeq(x, seq)
    THEN LET pos == CHOOSE i \in 1..Len(seq) :
                        seq[i] = x /\ \A j \in 1..(i - 1) : seq[j] # x
         IN  SubSeq(seq, 1, pos - 1) \o SubSeq(seq, pos + 1, Len(seq))
    ELSE seq

RECURSIVE RemoveEach(_, _)
RemoveEach(seq, syms) ==
    IF syms = <<>> THEN seq ELSE RemoveEach(RemoveFirst(seq, Head(syms)), Tail(syms))

\* leaving a scope drops every binding of its names
RECURSIVE RemoveAll(_, _)
RemoveAll(seq, syms) ==
    IF seq = <<>> THEN <<>>
    ELSE IF InSeq(Head(seq), syms) THEN RemoveAll(Tail(seq), syms)
    ELSE <<Head(seq)>> \o RemoveAll(Tail(seq), syms)

free_vars_visitor_unshadows_all(acc, up, e) ==
    IF ~up
    THEN [acc EXCEPT !.shadowed = @ \o DeclNames(e)]
    ELSE LET sh == RemoveAll(acc.shadowed, DeclNames(e))
         IN  IF e.kind = "LocalVar" /\ ~InSeq(e.sym, sh)
                /\ ~\E i \in 1..Len(acc.vars) : acc.vars[i][1] = e.sym
             THEN [vars |-> Append(acc.vars, <<e.sym, get_node_type(e.id)>>), shadowed |-> sh]
             ELSE [acc EXCEPT !.shadowed = sh]

free_vars_visitor_keeps_duplicates(acc, up, e) ==
    IF ~up
    THEN [acc EXCEPT !.shadowed = @ \o DeclNames(e)]
    ELSE LET sh == RemoveEach(acc.shadowed, DeclNames(e))
         IN  IF e.kind = "LocalVar" /\ ~InSeq(e.sym, sh)
             THEN [vars |-> Append(acc.vars, <<e.sym, get_node_type(e.id)>>), shadowed |-> sh]
             ELSE [acc EXCEPT !.shadowed = sh]

\* the closure of free_vars, on its captured vars and shadowed
free_vars_visitor(acc, up, e) ==
    IF ~up
    THEN [acc EXCEPT !.shadowed = @ \o DeclNames(e)]
    ELSE LET sh == RemoveEach(acc.shadowed, DeclNames(e))
         IN  IF e.kind = "LocalVar" /\ ~InSeq(e.sym, sh)
                /\ ~\E i \in 1..Len(acc.vars) : acc.vars[i][1] = e.sym
             THEN [vars |-> Append(acc.vars, <<e.sym, get_node_type(e.id)>>), shadowed |-> sh]
             ELSE [acc EXCEPT !.shadowed = sh]

RECURSIVE free_vars_fold(_, _)
free_vars_fold(events, acc) ==
    IF events = <<>> THEN acc
    ELSE free_vars_fold(Tail(events), free_vars_visitor(acc, Head(events).up, Head(events).e))

free_vars(e) == free_vars_fold(visit_pre_post(e), [vars |-> <<>>, shadowed |-> <<>>]).vars

\* a call of a specification function taken as pure whatever memory it uses
is_pure_visitor_function_is_pure(flag, e) ==
    IF e.kind = "Temporary"
    THEN (IF is_mutable_reference(get_node_type(e.id)) THEN FALSE ELSE flag)
    ELSE IF e.kind = "Call"
    THEN (IF e.oper.op \in {"Exists", "Global"} THEN FALSE ELSE flag)
    ELSE flag

is_pure_visitor_global_is_pure(flag, e) ==
    IF e.kind = "Temporary"
    THEN (IF is_mutable_reference(get_node_type(e.id)) THEN FALSE ELSE flag)
    ELSE IF e.kind = "Call"
    THEN (IF e.oper.op = "Exists" THEN FALSE
          ELSE IF e.oper.op = "Function"
          THEN (IF SpecFun_used_memory(e.oper.fid) # <<>> THEN FALSE ELSE flag)
          ELSE flag)
    ELSE flag

\* the closure of is_pure, on its captured flag
is_pure_visitor(flag, e) ==
    IF e.kind = "Temporary"
    THEN (IF is_mutable_reference(get_node_type(e.id)) THEN FALSE ELSE flag)
    ELSE IF e.kind = "Call"
    THEN (IF e.oper.op \in {"Exists", "Global"} THEN FALSE
          ELSE IF e.oper.op = "Function"
          THEN (IF SpecFun_used_memory(e.oper.fid) # <<>> THEN FALSE ELSE flag)
          ELSE flag)
    ELSE flag

RECURSIVE is_pure_fold(_, _)
is_pure_fold(events, flag) ==
    IF events = <<>> THEN flag
    ELSE is_pure_fold(Tail(events), is_pure_visitor(flag, Head(events).e))

is_pure(e) == is_pure_fold(visit(e), TRUE)

\* the two closures handed to the rewriting functions, by name
\* the closures passed as check_pure: whether the specification function is pure,
\* and one that calls no function pure
CheckPures == {"is_pure_fun", "never"}

check_pure(name, fid) == name = "is_pure_fun" /\ SpecFun_used_memory(fid) = <<>>

\* Operation::uses_memory
Operation_uses_memory(oper, cp) ==
    CASE oper.op \in {"Exists", "Global"} -> FALSE
      [] oper.op = "Function" -> check_pure(cp, oper.fid)
      [] OTHER -> TRUE

\* the visitor of ExpData::uses_memory on the nodes in the order visit takes them
RECURSIVE uses_memory_fold(_, _, _)
uses_memory_fold(events, no_use, cp) ==
    IF events = <<>> THEN no_use
    ELSE uses_memory_fold(Tail(events),
             IF Head(events).e.kind = "Call"
             THEN no_use /\ Operation_uses_memory(Head(events).e.oper, cp)
             ELSE no_use,
             cp)

\* ExpData::uses_memory
ExpData_uses_memory(e, cp) == uses_memory_fold(visit(e), TRUE, cp)

ExpRewriters == {"decline", "locals_to_value"}
NodeRewriters == {"none", "fresh"}

\* exp_rewriter(exp): Ok(new) as [ok |-> TRUE], Err(old) as [ok |-> FALSE]
exp_rewriter(name, e) ==
    IF name = "locals_to_value" /\ e.kind = "LocalVar"
    THEN [ok |-> TRUE, exp |-> Value(e.id)]
    ELSE [ok |-> FALSE, exp |-> e]

\* node_rewriter(id)
node_rewriter(name, id) == IF name = "fresh" THEN Some(id + 100) ELSE None

ExpRewriter_rewrite_node_id_always_new(rw, id) == Some(id + 100)

\* ExpRewriter::rewrite_node_id
ExpRewriter_rewrite_node_id(rw, id) == node_rewriter(rw.node_rewriter, id)

\* the id of a rebuilt node: the rewritten one, else the old one
internal_rewrite_id(rw, id) ==
    IF IsSome(ExpRewriter_rewrite_node_id(rw, id))
    THEN Unwrap(ExpRewriter_rewrite_node_id(rw, id))
    ELSE id

RECURSIVE ExpRewriter_rewrite_exp(_, _), rewrite_exp_descent(_, _)

\* ExpRewriter::rewrite_exp
ExpRewriter_rewrite_exp(rw, e) ==
    IF exp_rewriter(rw.exp_rewriter, e).ok
    THEN exp_rewriter(rw.exp_rewriter, e).exp
    ELSE rewrite_exp_descent(rw, exp_rewriter(rw.exp_rewriter, e).exp)

\* the node rebuilt with its id, its declarations and its children rewritten
rewrite_exp_descent(rw, e) ==
    LET id == internal_rewrite_id(rw, e.id)
        vec(es) == [i \in 1..Len(es) |-> ExpRewriter_rewrite_exp(rw, es[i])]
        opt(o) == IF IsSome(o) THEN Some(ExpRewriter_rewrite_exp(rw, Unwrap(o))) ELSE None
        decl(d) == LocalVarDecl(internal_rewrite_id(rw, d.id), d.name, opt(d.binding))
        decls(ds) == [i \in 1..Len(ds) |-> decl(ds[i])]
    IN  CASE e.kind = "Value" -> Value(id)
          [] e.kind = "LocalVar" -> LocalVar(id, e.sym)
          [] e.kind = "Temporary" -> Temporary(id, e.idx)
          [] e.kind = "Call" -> Call(id, e.oper, vec(e.args))
          [] e.kind = "Invoke" ->
                Invoke(id, ExpRewriter_rewrite_exp(rw, e.target), vec(e.args))
          [] e.kind = "Lambda" ->
                Lambda(id, decls(e.decls), ExpRewriter_rewrite_exp(rw, e.body))
          [] e.kind = "Block" ->
                Block(id, decls(e.decls), ExpRewriter_rewrite_exp(rw, e.body))
          [] e.kind = "Quant" ->
                Quant(id, e.qkind,
                      [i \in 1..Len(e.ranges) |->
                          <<decl(e.ranges[i][1]), ExpRewriter_rewrite_exp(rw, e.ranges[i][2])>>],
                      [i \in 1..Len(e.triggers) |-> vec(e.triggers[i])],
                      opt(e.condition),
                      ExpRewriter_rewrite_exp(rw, e.body))
          [] e.kind = "IfElse" ->
                IfElse(id, ExpRewriter_rewrite_exp(rw, e.args[1]),
                       ExpRewriter_rewrite_exp(rw, e.args[2]),
                       ExpRewriter_rewrite_exp(rw, e.args[3]))
          [] OTHER -> e

ExpRewriter(er, nr) == [exp_rewriter |-> er, node_rewriter |-> nr]

\* ExpData::rewrite, ExpData::rewrite_node_id, ExpData::rewrite_exp_and_node_id
ExpData_rewrite(e, er) == ExpRewriter_rewrite_exp(ExpRewriter(er, "none"), e)

ExpData_rewrite_node_id(e, nr) == ExpRewriter_rewrite_exp(ExpRewriter("decline", nr), e)

rewrite_exp_and_node_id(e, er, nr) == ExpRewriter_rewrite_exp(ExpRewriter(er, nr), e)

-----------------------------------------------------------------------------
(* Bytecode *)

NoCode == [bc |-> "Nop", op |-> "none", fid |-> "p", inst |-> <<>>, mem |-> R_T,
           node |-> "none", kind |-> "none", exp |-> e_true]

\* Call(_, _, Function | OpaqueCallBegin | OpaqueCallEnd (mid, fid, inst), _, _)
CallFun(op, fid, inst) ==
    [NoCode EXCEPT !.bc = "Call", !.op = op, !.fid = fid, !.inst = inst]
\* Call(_, _, MoveTo | MoveFrom | BorrowGlobal | Exists | GetGlobal (mid, sid, inst), _, _)
CallMem(op, mem) == [NoCode EXCEPT !.bc = "Call", !.op = op, !.mem = mem]
\* Call(_, _, WriteBack(node, _), _, _), node a GlobalRoot(mem), LocalRoot or Reference
CallWriteBack(node, mem) ==
    [NoCode EXCEPT !.bc = "Call", !.op = "WriteBack", !.node = node, !.mem = mem]
\* Call with any other operation
CallOther(op) == [NoCode EXCEPT !.bc = "Call", !.op = op]
\* Prop(_, kind, exp)
Prop(kind, exp) == [NoCode EXCEPT !.bc = "Prop", !.kind = kind, !.exp = exp]

CallOps == {"Function", "OpaqueCallBegin", "OpaqueCallEnd"}
WriteOps == {"MoveTo", "MoveFrom", "BorrowGlobal"}
ReadOps == {"Exists", "GetGlobal"}

Calls == {CallFun(op, f, inst) : op \in CallOps, f \in Funs, inst \in Insts}

Codes ==
    Calls
    \cup {CallMem(op, mem) : op \in WriteOps \cup ReadOps, mem \in Mems}
    \cup {CallWriteBack("GlobalRoot", mem) : mem \in Mems}
    \cup {CallWriteBack("LocalRoot", R_T), CallWriteBack("Reference", R_T)}
    \cup {CallOther("Add"), NoCode}
    \cup {Prop(kind, exp) : kind \in {"Assume", "Assert", "Modifies"}, exp \in Exps}

-----------------------------------------------------------------------------
(* The transfer function and the declared specification *)

\* self.cache.get::<UsageState>(callee_id, &FunctionVariant::Baseline)
cache_get_none(cache, fid) == None

cache_get(cache, fid) == cache[fid]

\* Prop(_, Modifies, _) => unreachable!(..): the transfer function panics
execute_aborts_never(code) == FALSE

execute_aborts(code) == code.bc = "Prop" /\ code.kind = "Modifies"

\* a call without a cached summary taken as a read of the callee's first struct
execute_unknown_callee_reads(st, code, cache, deleg) ==
    IF code.bc = "Call" THEN
        IF code.op \in CallOps THEN
            IF IsSome(cache_get(cache, code.fid)) THEN
                IF deleg[code.fid]
                THEN subsume_callee_as_direct(st, Unwrap(cache_get(cache, code.fid)), code.inst)
                ELSE subsume_callee_as_transitive(st, Unwrap(cache_get(cache, code.fid)), code.inst)
            ELSE add_transitive_accessed_iter(st, {code.mem})
        ELSE IF code.op \in WriteOps THEN add_direct_modified(st, code.mem)
        ELSE IF code.op = "WriteBack" /\ code.node = "GlobalRoot"
             THEN add_direct_modified(st, code.mem)
        ELSE IF code.op \in ReadOps THEN add_direct_accessed(st, code.mem)
        ELSE st
    ELSE IF code.bc = "Prop" THEN
        IF code.kind = "Assume"
        THEN add_direct_assumed_iter(st, Usages(used_memory(code.exp)))
        ELSE IF code.kind = "Assert"
        THEN add_direct_asserted_iter(st, Usages(used_memory(code.exp)))
        ELSE st
    ELSE st

\* every WriteBack taken as a write of the struct, whatever the borrow node
execute_any_write_back_modifies(st, code, cache, deleg) ==
    IF code.bc = "Call" THEN
        IF code.op \in CallOps THEN
            IF IsSome(cache_get(cache, code.fid)) THEN
                IF deleg[code.fid]
                THEN subsume_callee_as_direct(st, Unwrap(cache_get(cache, code.fid)), code.inst)
                ELSE subsume_callee_as_transitive(st, Unwrap(cache_get(cache, code.fid)), code.inst)
            ELSE st
        ELSE IF code.op \in WriteOps THEN add_direct_modified(st, code.mem)
        ELSE IF code.op = "WriteBack" THEN add_direct_modified(st, code.mem)
        ELSE IF code.op \in ReadOps THEN add_direct_accessed(st, code.mem)
        ELSE st
    ELSE IF code.bc = "Prop" THEN
        IF code.kind = "Assume"
        THEN add_direct_assumed_iter(st, Usages(used_memory(code.exp)))
        ELSE IF code.kind = "Assert"
        THEN add_direct_asserted_iter(st, Usages(used_memory(code.exp)))
        ELSE st
    ELSE st

\* the state after an instruction on which the transfer function returns
execute(st, code, cache, deleg) ==
    IF code.bc = "Call" THEN
        IF code.op \in CallOps THEN
            IF IsSome(cache_get(cache, code.fid)) THEN
                IF deleg[code.fid]
                THEN subsume_callee_as_direct(st, Unwrap(cache_get(cache, code.fid)), code.inst)
                ELSE subsume_callee_as_transitive(st, Unwrap(cache_get(cache, code.fid)), code.inst)
            ELSE st
        ELSE IF code.op \in WriteOps THEN add_direct_modified(st, code.mem)
        ELSE IF code.op = "WriteBack" /\ code.node = "GlobalRoot"
             THEN add_direct_modified(st, code.mem)
        ELSE IF code.op \in ReadOps THEN add_direct_accessed(st, code.mem)
        ELSE st
    ELSE IF code.bc = "Prop" THEN
        IF code.kind = "Assume"
        THEN add_direct_assumed_iter(st, Usages(used_memory(code.exp)))
        ELSE IF code.kind = "Assert"
        THEN add_direct_asserted_iter(st, Usages(used_memory(code.exp)))
        ELSE st
    ELSE st

\* the condition kinds a function declaration can carry (allowed_on_fun_decl)
ConditionKinds ==
    {"Requires", "AbortsIf", "AbortsWith", "SucceedsIf", "Emits", "Ensures",
     "Modifies", "FunctionInvariant", "LetPost", "LetPre", "Update"}

Condition(kind, exp, additional_exps) ==
    [kind |-> kind, exp |-> exp, additional_exps |-> additional_exps]

\* an Update condition always carries the target as first additional expression
Conditions ==
    {Condition(kind, exp, <<>>) : kind \in ConditionKinds \ {"Update"}, exp \in Exps}
    \cup {Condition(kind, exp, <<a>>) :
              kind \in ConditionKinds, exp \in Exps, a \in AdditionalExps}

cond_used_memory(cond) ==
    used_memory(cond.exp)
    \cup UNION {used_memory(cond.additional_exps[i]) : i \in 1..Len(cond.additional_exps)}

spec_usage_cond_emits_assumed(st, cond) ==
    LET s1 == IF cond.kind \in {"Ensures", "AbortsIf"}
              THEN add_direct_asserted_iter(st, Usages(cond_used_memory(cond)))
              ELSE add_direct_assumed_iter(st, Usages(cond_used_memory(cond)))
    IN  IF cond.kind = "Update"
           /\ IsSome(extract_ghost_mem_access(cond.additional_exps[1]))
        THEN add_direct_modified(s1, Unwrap(extract_ghost_mem_access(cond.additional_exps[1])))
        ELSE s1

\* one iteration of the loop of compute_spec_usage
spec_usage_cond(st, cond) ==
    LET s1 == IF cond.kind \in {"Ensures", "AbortsIf", "Emits"}
              THEN add_direct_asserted_iter(st, Usages(cond_used_memory(cond)))
              ELSE add_direct_assumed_iter(st, Usages(cond_used_memory(cond)))
    IN  IF cond.kind = "Update"
           /\ IsSome(extract_ghost_mem_access(cond.additional_exps[1]))
        THEN add_direct_modified(s1, Unwrap(extract_ghost_mem_access(cond.additional_exps[1])))
        ELSE s1

\* the declared specification left out of the summary
compute_spec_usage_skipped(spec, st) == st

RECURSIVE compute_spec_usage(_, _)
compute_spec_usage(spec, st) ==
    IF spec = <<>> THEN st
    ELSE compute_spec_usage(Tail(spec), spec_usage_cond(st, Head(spec)))

-----------------------------------------------------------------------------
(* The pass over a program whose functions are each processed once *)

proxyvars == <<storage, reconfig_subscriptions, receivers, on_chain_configs, outcome>>

\* no executor proxy exists
ProxyIdle ==
    /\ storage = None
    /\ reconfig_subscriptions = <<>>
    /\ receivers = <<>>
    /\ on_chain_configs = None
    /\ outcome = None

\* no function of ExpData is being applied
auxvars == <<expr, result, proxyvars>>

AuxIdle ==
    /\ expr = None
    /\ result = None
    /\ ProxyIdle

NoRound == [comps |-> <<>>, n |-> 0, changed |-> FALSE, todo |-> <<>>]

FixIdle ==
    /\ prog = <<>>
    /\ state_map = <<>>
    /\ work_list = <<>>
    /\ iters = 0
    /\ round = NoRound

\* Only a callee analysed before its caller has a summary, and either function
\* can be that callee: q is the callee whose invariant checking is delegated.
Delegation == [f \in Funs |-> f = "q"]

Init ==
    /\ delegated = Delegation
    /\ targets = [f \in Funs |-> None]
    /\ cur = None
    /\ pc = "idle"
    /\ state = UsageState_default
    /\ fork = None
    /\ pend = None
    /\ nsteps = 0
    /\ FixIdle
    /\ AuxIdle

fixvars == <<prog, state_map, work_list, iters, round, auxvars>>

\* process: summarize(&func_target, UsageState::default()) starts
Process(f) ==
    /\ pc = "idle"
    /\ targets[f] = None
    /\ cur' = Some(f)
    /\ pc' = "entry"
    /\ state' = UsageState_default
    /\ UNCHANGED <<delegated, targets, fork, pend, nsteps, fixvars>>

\* the transfer function on the next bytecode of the block being executed; a
\* panic unwinds out of process, and the pass does not go on
Execute(code) ==
    /\ pc \in {"entry", "then", "else", "exit"}
    /\ nsteps < MaxSteps
    /\ IF execute_aborts(code)
       THEN /\ pc' = "panic"
            /\ UNCHANGED <<state, nsteps>>
       ELSE /\ state' = execute(state, code, targets, delegated)
            /\ nsteps' = nsteps + 1
            /\ pc' = pc
    /\ UNCHANGED <<delegated, targets, cur, fork, pend, fixvars>>

\* the entry block ends in a branch: both successors start from its exit state
Branch ==
    /\ pc = "entry"
    /\ fork' = Some(state)
    /\ pc' = "then"
    /\ UNCHANGED <<delegated, targets, cur, state, pend, nsteps, fixvars>>

\* the first branch ends: its exit state becomes the entry state of the join block
EndThen ==
    /\ pc = "then"
    /\ pend' = Some(state)
    /\ state' = Unwrap(fork)
    /\ pc' = "else"
    /\ UNCHANGED <<delegated, targets, cur, fork, nsteps, fixvars>>

\* the second branch ends: next_block_res.pre.join(&post)
JoinBranch ==
    /\ pc = "else"
    /\ state' = UsageState_join(Unwrap(pend), state).value
    /\ fork' = None
    /\ pend' = None
    /\ pc' = "exit"
    /\ UNCHANGED <<delegated, targets, cur, nsteps, fixvars>>

\* summarize returns to_summary(exit_state.post)
Summarized ==
    /\ pc \in {"entry", "exit"}
    /\ pc' = "spec"
    /\ UNCHANGED <<delegated, targets, cur, state, fork, pend, nsteps, fixvars>>

\* compute_spec_usage: the next declared condition
SpecCondition(cond) ==
    /\ pc = "spec"
    /\ nsteps < MaxSteps
    /\ state' = spec_usage_cond(state, cond)
    /\ nsteps' = nsteps + 1
    /\ UNCHANGED <<delegated, targets, cur, pc, fork, pend, fixvars>>

\* data.annotations.set(summary)
SetAnnotation ==
    /\ pc = "spec"
    /\ targets' = [targets EXCEPT ![Unwrap(cur)] = Some(state)]
    /\ cur' = None
    /\ pc' = "idle"
    /\ state' = UsageState_default
    /\ UNCHANGED <<delegated, fork, pend, nsteps, fixvars>>

Next ==
    \/ \E f \in Funs : Process(f)
    \/ \E code \in Codes : Execute(code)
    \/ Branch
    \/ EndThen
    \/ JoinBranch
    \/ Summarized
    \/ \E cond \in Conditions : SpecCondition(cond)
    \/ SetAnnotation

Spec == Init /\ [][Next]_vars

-----------------------------------------------------------------------------
(* The dataflow engine and the iteration over call graph components *)

\* programs of the fixed-point runs: code size, worklist and round caps
MaxProgSize == 3
MaxIters == 30
MaxRounds == 6

\* control flow graphs: a single block, and a loop (header 1, body 2, exit 3);
\* the header of a loop only branches
Shapes == {"single", "loop"}

NumBlocks(shape) == IF shape = "single" THEN 1 ELSE 3

successors(shape, b) ==
    IF shape = "loop"
    THEN (IF b = 1 THEN <<2, 3>> ELSE IF b = 2 THEN <<1>> ELSE <<>>)
    ELSE <<>>

entry_block(shape) == 1
exit_block(shape) == NumBlocks(shape)

\* the only struct of the module under analysis in these runs
FixMems == {W}

FixCodes == {CallMem("MoveTo", W)} \cup {CallFun("Function", f, <<>>) : f \in Funs}

FixSpecs == {<<>>, <<Condition("Ensures", e_exists_W, <<>>)>>}

FunDefs ==
    {[shape |-> sh, blocks |-> bl, spec |-> sp] :
        sh \in Shapes,
        bl \in UNION {[1..NumBlocks(x) -> {<<>>} \cup {<<c>> : c \in FixCodes}] : x \in Shapes},
        sp \in FixSpecs}

RECURSIVE SumLen(_)
SumLen(seqs) == IF seqs = <<>> THEN 0 ELSE Len(Head(seqs)) + SumLen(Tail(seqs))

FunSize(def) == SumLen(def.blocks) + Len(def.spec)

WellFormedDef(def) ==
    /\ Len(def.blocks) = NumBlocks(def.shape)
    /\ def.shape = "loop" => def.blocks[1] = <<>>

Programs ==
    {pr \in [Funs -> {d \in FunDefs : WellFormedDef(d)}] :
        FunSize(pr["p"]) + FunSize(pr["q"]) <= MaxProgSize}

\* the functions that the code of f calls
Callees(pr, f) ==
    {pr[f].blocks[b][i].fid :
        <<b, i>> \in {x \in (1..Len(pr[f].blocks)) \X {1} :
                         /\ Len(pr[f].blocks[x[1]]) >= 1
                         /\ pr[f].blocks[x[1]][1].op \in CallOps}}

Component(members, cyclic) == [members |-> members, cyclic |-> cyclic]

\* the components of the call graph, callees first
Components(pr) ==
    IF "q" \in Callees(pr, "p") /\ "p" \in Callees(pr, "q")
    THEN <<Component(<<"p", "q">>, TRUE)>>
    ELSE LET order == IF "q" \in Callees(pr, "p") THEN <<"q", "p">> ELSE <<"p", "q">>
         IN  <<Component(<<order[1]>>, order[1] \in Callees(pr, order[1])),
               Component(<<order[2]>>, order[2] \in Callees(pr, order[2]))>>

BlockState(pre, post) == [pre |-> pre, post |-> post]

RECURSIVE execute_block(_, _, _, _)
execute_block(codes, st, cache, deleg) ==
    IF codes = <<>> THEN st
    ELSE execute_block(Tail(codes), execute(st, Head(codes), cache, deleg), cache, deleg)

\* propagate the exit state of a block to its successors
RECURSIVE propagate(_, _, _, _, _)
propagate(succs, sm, wl, post, initial) ==
    IF succs = <<>> THEN [state_map |-> sm, work_list |-> wl]
    ELSE LET n == Head(succs)
         IN  IF IsSome(sm[n])
             THEN LET j == UsageState_join(Unwrap(sm[n]).pre, post)
                  IN  IF j.result = Unchanged
                      THEN propagate(Tail(succs), sm, wl, post, initial)
                      ELSE propagate(Tail(succs),
                               [sm EXCEPT ![n] = Some(BlockState(j.value, Unwrap(sm[n]).post))],
                               Append(wl, n), post, initial)
             ELSE propagate(Tail(succs),
                      [sm EXCEPT ![n] = Some(BlockState(post, initial))],
                      Append(wl, n), post, initial)

Delegations == {[f \in Funs |-> FALSE], Delegation}

FixInit ==
    /\ delegated \in Delegations
    /\ prog \in Programs
    /\ targets = [f \in Funs |-> None]
    /\ cur = None
    /\ pc = "next"
    /\ state = UsageState_default
    /\ fork = None
    /\ pend = None
    /\ nsteps = 0
    /\ state_map = <<>>
    /\ work_list = <<>>
    /\ iters = 0
    /\ round = [comps |-> Components(prog), n |-> 1, changed |-> FALSE,
                todo |-> Components(prog)[1].members]
    /\ AuxIdle

passvars == <<state, fork, pend, nsteps, auxvars>>

\* process(f): summarize starts the worklist at the entry block
StartFun ==
    /\ pc = "next"
    /\ round.todo # <<>>
    /\ LET f == Head(round.todo)
           sh == prog[f].shape
       IN  /\ cur' = Some(f)
           /\ state_map' = [b \in 1..NumBlocks(sh) |->
                               IF b = entry_block(sh)
                               THEN Some(BlockState(UsageState_default, UsageState_default))
                               ELSE None]
           /\ work_list' = <<entry_block(sh)>>
    /\ iters' = 0
    /\ pc' = "work"
    /\ UNCHANGED <<delegated, targets, prog, round, passvars>>

\* one iteration of the worklist loop
Iterate ==
    /\ pc = "work"
    /\ work_list # <<>>
    /\ iters < MaxIters
    /\ \E f \in {Unwrap(cur)}, b \in {Head(work_list)} :
       \E post \in {execute_block(prog[f].blocks[b], Unwrap(state_map[b]).pre,
                                  targets, delegated)} :
       \E r \in {propagate(successors(prog[f].shape, b), state_map, Tail(work_list),
                           post, UsageState_default)} :
           /\ state_map' = [r.state_map EXCEPT
                               ![b] = Some(BlockState(Unwrap(r.state_map[b]).pre, post))]
           /\ work_list' = r.work_list
    /\ iters' = iters + 1
    /\ UNCHANGED <<delegated, targets, cur, pc, prog, round, passvars>>

\* the worklist is empty: the exit state becomes the summary, the declared
\* specification is folded in and the annotation is set
FinishFun ==
    /\ pc = "work"
    /\ work_list = <<>>
    /\ \E f \in {Unwrap(cur)} :
       \E ex \in {state_map[exit_block(prog[f].shape)]} :
       \E summary \in {IF IsSome(ex) THEN Unwrap(ex).post ELSE UsageState_default} :
       \E annotated \in {compute_spec_usage(prog[f].spec, summary)} :
           /\ targets' = [targets EXCEPT ![f] = Some(annotated)]
           /\ round' = [round EXCEPT !.todo = Tail(@),
                                     !.changed = @ \/ targets[f] # Some(annotated)]
    /\ cur' = None
    /\ pc' = "next"
    /\ UNCHANGED <<delegated, prog, state_map, work_list, iters, passvars>>

\* every member of the component was processed: iterate a cyclic component
\* again while a summary changed, else go on to the next component
EndRound ==
    /\ pc = "next"
    /\ round.todo = <<>>
    /\ IF Head(round.comps).cyclic /\ round.changed
       THEN /\ round.n < MaxRounds
            /\ round' = [round EXCEPT !.n = @ + 1, !.changed = FALSE,
                                      !.todo = Head(round.comps).members]
            /\ pc' = "next"
       ELSE IF Len(round.comps) > 1
       THEN /\ round' = [comps |-> Tail(round.comps), n |-> 1, changed |-> FALSE,
                         todo |-> round.comps[2].members]
            /\ pc' = "next"
       ELSE /\ round' = [round EXCEPT !.comps = <<>>]
            /\ pc' = "done"
    /\ UNCHANGED <<delegated, targets, cur, prog, state_map, work_list, iters, passvars>>

NextFix ==
    \/ StartFun
    \/ Iterate
    \/ FinishFun
    \/ EndRound

\* the pass is a sequential program: it takes its next step as long as there is one
SpecFix == FixInit /\ [][NextFix]_vars /\ WF_vars(NextFix)

-----------------------------------------------------------------------------
(* The functions of ExpData applied to an expression *)

\* variables and temporaries, by the place they are put in
x_u64 == LocalVar(21, "x")
x_bool == LocalVar(22, "x")
y_address == LocalVar(23, "y")
t_mut == Temporary(24, 0)
t_val == Temporary(25, 1)
e_add_xy == Call(38, Oper("Add"), <<LocalVar(29, "x"), LocalVar(28, "y")>>)

\* expressions in the range of a quantifier or the binding of a block
RangeExps == {LocalVar(26, "x"), LocalVar(27, "y"), e_addr}

\* expressions in the body of an inner scope
BodyExps == {x_bool, LocalVar(28, "y"), t_mut, e_exists_R, e_true}

\* expressions that follow an inner scope
TailExps == {x_u64, y_address, t_val, e_fun_mem, e_fun_pure}

Symbols == {"x", "y"}

InnerQuant(s, r, b) ==
    Quant(31, "Forall", <<<<LocalVarDecl(41, s, None), r>>>>, <<>>, None, b)
InnerBlock(s, d, b) == Block(32, <<LocalVarDecl(42, s, Some(d))>>, b)
InnerLambda(s, b) == Lambda(33, <<LocalVarDecl(43, s, None)>>, b)

InnerExps ==
    {InnerQuant(s, r, b) : s \in Symbols, r \in RangeExps, b \in BodyExps}
    \cup {InnerBlock(s, d, b) : s \in Symbols, d \in RangeExps, b \in BodyExps}
    \cup {InnerLambda(s, b) : s \in Symbols, b \in BodyExps}

AtomExps == BodyExps \cup TailExps \cup {e_global_G, e_add_xy, Invalid(39)}

\* an inner expression followed by another expression
PairExps == {Call(35, Oper("Add"), <<m, t>>) : m \in InnerExps \cup BodyExps, t \in TailExps}

OuterQuant(s, r, c, b) ==
    Quant(34, "Exists", <<<<LocalVarDecl(44, s, None), r>>>>, <<<<r>>>>, c, b)

OuterExps ==
    {OuterQuant(s, r, c, Call(35, Oper("Add"), <<m, t>>)) :
        s \in Symbols, r \in {LocalVar(26, "x"), e_fun_pure},
        c \in {None, Some(LocalVar(30, "x"))},
        m \in InnerExps, t \in {x_u64, y_address, t_val}}

\* a quantifier with two ranges, the first binder bound, two trigger groups and a filter
e_quant_full ==
    Quant(45, "Forall",
          <<<<LocalVarDecl(46, "x", Some(e_addr)), LocalVar(26, "x")>>,
            <<LocalVarDecl(47, "y", None), LocalVar(27, "y")>>>>,
          <<<<e_true>>, <<x_bool, t_val>>>>, Some(e_exists_R), x_u64)

OtherExps ==
    {e_ite, e_select_G, e_select_R, e_fun_mem_at, e_quant_full}
    \cup {IfElse(36, x_bool, m, t_val) : m \in InnerExps}
    \cup {Invoke(37, InnerLambda(s, b), <<t>>) : s \in Symbols, b \in BodyExps, t \in TailExps}

InputExps == AtomExps \cup InnerExps \cup PairExps \cup OuterExps \cup OtherExps

idlevars == <<delegated, targets, cur, pc, state, fork, pend, nsteps,
              prog, state_map, work_list, iters, round, proxyvars>>

ExpInit ==
    /\ delegated = Delegation
    /\ targets = [f \in Funs |-> None]
    /\ cur = None
    /\ pc = "exp"
    /\ state = UsageState_default
    /\ fork = None
    /\ pend = None
    /\ nsteps = 0
    /\ FixIdle
    /\ expr \in {Some(e) : e \in InputExps}
    /\ result = None
    /\ ProxyIdle

Returned(op, args, val) == Some([op |-> op, args |-> args, val |-> val])

FreeVars ==
    /\ pc = "exp"
    /\ result = None
    /\ result' = Returned("free_vars", <<>>, free_vars(Unwrap(expr)))
    /\ UNCHANGED <<expr, idlevars>>

IsPure ==
    /\ pc = "exp"
    /\ result = None
    /\ result' = Returned("is_pure", <<>>, is_pure(Unwrap(expr)))
    /\ UNCHANGED <<expr, idlevars>>

Rewrite(er) ==
    /\ pc = "exp"
    /\ result = None
    /\ result' = Returned("rewrite", <<er, "none">>, ExpData_rewrite(Unwrap(expr), er))
    /\ UNCHANGED <<expr, idlevars>>

RewriteNodeId(nr) ==
    /\ pc = "exp"
    /\ result = None
    /\ result' = Returned("rewrite_node_id", <<"decline", nr>>,
                          ExpData_rewrite_node_id(Unwrap(expr), nr))
    /\ UNCHANGED <<expr, idlevars>>

RewriteExpAndNodeId(er, nr) ==
    /\ pc = "exp"
    /\ result = None
    /\ result' = Returned("rewrite_exp_and_node_id", <<er, nr>>,
                          rewrite_exp_and_node_id(Unwrap(expr), er, nr))
    /\ UNCHANGED <<expr, idlevars>>

VisitPrePost ==
    /\ pc = "exp"
    /\ result = None
    /\ result' = Returned("visit_pre_post", <<>>, visit_pre_post(Unwrap(expr)))
    /\ UNCHANGED <<expr, idlevars>>

OperationUsesMemory(cp) ==
    /\ pc = "exp"
    /\ result = None
    /\ Unwrap(expr).kind = "Call"
    /\ result' = Returned("Operation::uses_memory", <<cp>>,
                          Operation_uses_memory(Unwrap(expr).oper, cp))
    /\ UNCHANGED <<expr, idlevars>>

ExpDataUsesMemory(cp) ==
    /\ pc = "exp"
    /\ result = None
    /\ result' = Returned("ExpData::uses_memory", <<cp>>,
                          ExpData_uses_memory(Unwrap(expr), cp))
    /\ UNCHANGED <<expr, idlevars>>

UsedMemory ==
    /\ pc = "exp"
    /\ result = None
    /\ result' = Returned("used_memory", <<>>, used_memory(Unwrap(expr)))
    /\ UNCHANGED <<expr, idlevars>>

ExpNext ==
    \/ FreeVars
    \/ \E cp \in CheckPures : OperationUsesMemory(cp)
    \/ \E cp \in CheckPures : ExpDataUsesMemory(cp)
    \/ UsedMemory
    \/ VisitPrePost
    \/ IsPure
    \/ \E er \in ExpRewriters : Rewrite(er)
    \/ \E nr \in NodeRewriters : RewriteNodeId(nr)
    \/ \E er \in ExpRewriters, nr \in NodeRewriters : RewriteExpAndNodeId(er, nr)

SpecExp == ExpInit /\ [][ExpNext]_vars

-----------------------------------------------------------------------------
(* The executor proxy of state sync (executor_proxy.rs): on-chain configs  *)
(* are read from storage and published to the reconfiguration subscribers  *)

\* the last epoch a run reaches; the chain is at epoch 1 after genesis
MaxEpoch == 3

ConfigIds == {"DiemVersion", "VMConfig", "TestOnChainConfig"}

\* the configs every node reads; TestOnChainConfig is not one of them
ON_CHAIN_CONFIG_REGISTRY == {"DiemVersion", "VMConfig"}

\* the registries a proxy is constructed with: `new` takes the first,
\* `new_for_test` any of them
ConfigRegistries == {ON_CHAIN_CONFIG_REGISTRY, ConfigIds}

new_epoch_event_key == "new_epoch_event_key"

EventKeys == {new_epoch_event_key, "other_event_key"}

Ok(v) == [ok |-> TRUE, val |-> v]

Err(e) == [ok |-> FALSE, err |-> e]

OnChainConfigPayload(epoch, configs) == [epoch |-> epoch, configs |-> configs]

\* ReconfigSubscription::subscribe_all(name, configs, events)
subscribe_all(configs, events) == [configs |-> configs, events |-> events]

SubscriptionLists ==
    { <<subscribe_all({"DiemVersion"}, {}), subscribe_all({"VMConfig"}, {})>>,
      <<subscribe_all({}, {}), subscribe_all({}, {new_epoch_event_key})>>,
      <<subscribe_all({"DiemVersion", "VMConfig", "TestOnChainConfig"}, {}),
        subscribe_all({"DiemVersion"}, {})>> }

Subs == DOMAIN reconfig_subscriptions

\* the configs that exist on chain after genesis
GenesisConfigs ==
    {[c \in ids |-> 1] : ids \in {{"DiemVersion"}, ConfigIds}}

\* Reads every config of the registry at the synced version.  A failing read of
\* the synced version or of the epoch is the error of the whole fetch; a config
\* whose resource cannot be read is left out of the payload.
fetch_all_configs_missing_config_fails(config_registry, st) ==
    IF ~st.ok \/ ~(config_registry \subseteq DOMAIN st.configs)
    THEN Err("UnexpectedError")
    ELSE Ok(OnChainConfigPayload(st.epoch, [id \in config_registry |-> st.configs[id]]))

fetch_all_configs(config_registry, st) ==
    IF ~st.ok
    THEN Err("UnexpectedError")
    ELSE Ok(OnChainConfigPayload(st.epoch,
              [id \in config_registry \cap DOMAIN st.configs |-> st.configs[id]]))

\* ReconfigSubscription::publish: the payload replaces what waits in the
\* channel of the receiver; publishing to a dropped receiver fails
publish(receiver, payload) ==
    IF receiver.alive THEN [receiver EXCEPT !.inbox = Some(payload)] ELSE receiver

\* the loop over the subscriptions left at the first publish that fails
publish_all_until_failure(subs, payload) ==
    [i \in DOMAIN receivers |->
        IF i \in subs /\ \A j \in subs : j < i => receivers[j].alive
        THEN publish(receivers[i], payload) ELSE receivers[i]]

publish_all(subs, payload) ==
    [i \in DOMAIN receivers |-> IF i \in subs THEN publish(receivers[i], payload)
                                              ELSE receivers[i]]

failed_publishes(subs) == {i \in subs : ~receivers[i].alive}

\* the configs of `new` that differ from the stored ones or are not stored
changed_configs(old, new) ==
    {id \in DOMAIN new.configs :
        IF id \in DOMAIN old.configs THEN old.configs[id] # new.configs[id] ELSE TRUE}

subscribed_items_match_configs_only(subscription, changed, event_keys) ==
    changed \cap subscription.configs # {}

subscribed_items_match(subscription, changed, event_keys) ==
    \/ changed \cap subscription.configs # {}
    \/ event_keys \cap subscription.events # {}

publish_success_always(published) == TRUE

publish_success(published) == failed_publishes(published) = {}

Called(op, args, old, published, payload, ret) ==
    Some([op |-> op, args |-> args, old |-> old, published |-> published,
          payload |-> payload, ret |-> ret])

ProxyInit ==
    /\ delegated = Delegation
    /\ targets = [f \in Funs |-> None]
    /\ cur = None
    /\ pc = "proxy"
    /\ state = UsageState_default
    /\ fork = None
    /\ pend = None
    /\ nsteps = 0
    /\ FixIdle
    /\ expr = None
    /\ result = None
    /\ storage \in {[ok |-> TRUE, epoch |-> 1, configs |-> g] : g \in GenesisConfigs}
    /\ reconfig_subscriptions \in SubscriptionLists
    /\ receivers = [i \in DOMAIN reconfig_subscriptions |-> [alive |-> TRUE, inbox |-> None]]
    /\ on_chain_configs = None
    /\ outcome = None

nonproxyvars == <<delegated, targets, cur, pc, state, fork, pend, nsteps,
                  prog, state_map, work_list, iters, round, expr, result>>

\* publish_initial_on_chain_configs: both the fetch and every publish are
\* expected to succeed; a failure ends the process
publish_initial_on_chain_configs(op, config_registry) ==
    /\ pc = "proxy"
    /\ on_chain_configs = None
    /\ outcome = None
    /\ \E fetched \in {fetch_all_configs(config_registry, storage)} :
        IF ~fetched.ok
        THEN /\ outcome' = Called(op, config_registry, None, {}, None, "panic")
             /\ UNCHANGED <<receivers, on_chain_configs>>
        ELSE \E first_failed \in {{i \in Subs : \A j \in failed_publishes(Subs) : i <= j}} :
             \* the subscriptions are published to in order, up to the first failure
             /\ receivers' = publish_all(first_failed, fetched.val)
             /\ IF failed_publishes(Subs) # {}
                THEN /\ outcome' = Called(op, config_registry, None, first_failed,
                                          Some(fetched.val), "panic")
                     /\ UNCHANGED on_chain_configs
                ELSE /\ outcome' = Called(op, config_registry, None, Subs,
                                          Some(fetched.val), "Ok")
                     /\ on_chain_configs' = Some(fetched.val)
    /\ UNCHANGED <<storage, reconfig_subscriptions, nonproxyvars>>

New == publish_initial_on_chain_configs("new", ON_CHAIN_CONFIG_REGISTRY)

NewForTest(config_registry) == publish_initial_on_chain_configs("new_for_test", config_registry)

\* publish_on_chain_config_updates(events) against the storage contents st:
\* the receivers and the stored payload it leaves, whom it published to, the
\* payload it published and its result
publish_on_chain_config_updates(events, st) ==
    IF events = {}
    THEN [receivers |-> receivers, on_chain_configs |-> on_chain_configs,
          published |-> {}, payload |-> None, ret |-> "Ok"]
    ELSE LET fetched == fetch_all_configs(ON_CHAIN_CONFIG_REGISTRY, st) IN
         IF ~fetched.ok
         THEN [receivers |-> receivers, on_chain_configs |-> on_chain_configs,
               published |-> {}, payload |-> None, ret |-> "Err"]
         ELSE LET published ==
                    {i \in Subs : subscribed_items_match(reconfig_subscriptions[i],
                         changed_configs(Unwrap(on_chain_configs), fetched.val), events)}
              IN [receivers |-> publish_all(published, fetched.val),
                  on_chain_configs |-> Some(fetched.val),
                  published |-> published, payload |-> Some(fetched.val),
                  ret |-> IF publish_success(published) THEN "Ok" ELSE "Err"]

PublishOnChainConfigUpdates(events) ==
    /\ pc = "proxy"
    /\ IsSome(on_chain_configs)
    /\ \E r \in {publish_on_chain_config_updates(events, storage)} :
          /\ receivers' = r.receivers
          /\ on_chain_configs' = r.on_chain_configs
          /\ outcome' = Called("publish_on_chain_config_updates", events,
                               on_chain_configs, r.published, r.payload, r.ret)
    /\ UNCHANGED <<storage, reconfig_subscriptions, nonproxyvars>>

\* a committed block sets one on-chain config (or publishes it for the first
\* time) and starts a new epoch
committed(st, id) ==
    [st EXCEPT
          !.epoch = @ + 1,
          !.configs = [c \in DOMAIN @ \cup {id} |->
                          IF c # id THEN @[c] ELSE IF id \in DOMAIN @ THEN @[id] + 1 ELSE 1]]

Commit(id) ==
    /\ pc = "proxy"
    /\ storage.ok
    /\ storage.epoch < MaxEpoch
    /\ storage' = committed(storage, id)
    /\ UNCHANGED <<reconfig_subscriptions, receivers, on_chain_configs, outcome, nonproxyvars>>

\* What chunk_executor.execute_and_commit_chunk can answer for a chunk: an
\* error, or the keys of the events the committed transactions emitted.  A
\* chunk that emits the new-epoch event starts a new epoch, with or without a
\* change to one of the on-chain configs.
Chunks ==
    {[ok |-> FALSE, events |-> {}, reconfig |-> None]}
        \cup {[ok |-> TRUE, events |-> evs, reconfig |-> None] :
                    evs \in SUBSET (EventKeys \ {new_epoch_event_key})}
        \cup {[ok |-> TRUE, events |-> evs \cup {new_epoch_event_key}, reconfig |-> r] :
                    evs \in SUBSET (EventKeys \ {new_epoch_event_key}),
                    r \in {Some(id) : id \in ConfigIds}}

execute_and_commit_chunk(chunk, st) ==
    IF ~chunk.ok \/ new_epoch_event_key \notin chunk.events THEN st
    ELSE IF IsSome(chunk.reconfig) THEN committed(st, Unwrap(chunk.reconfig))
    ELSE [st EXCEPT !.epoch = @ + 1]

extract_reconfig_events_keeps_all(events) == events

extract_reconfig_events(events) == {key \in events : key = new_epoch_event_key}

\* execute_chunk: the error of the chunk executor is returned; the error of
\* the publishing is logged and dropped
ExecuteChunk(chunk) ==
    /\ pc = "proxy"
    /\ IsSome(on_chain_configs)
    /\ new_epoch_event_key \in chunk.events => storage.epoch < MaxEpoch
    /\ storage' = execute_and_commit_chunk(chunk, storage)
    /\ IF ~chunk.ok
       THEN /\ outcome' = Some([op |-> "execute_chunk", ret |-> "Err", publish |-> None])
            /\ UNCHANGED <<receivers, on_chain_configs>>
       ELSE \E reconfig_events \in {extract_reconfig_events(chunk.events)} :
            \E r \in {publish_on_chain_config_updates(reconfig_events, storage')} :
               /\ receivers' = r.receivers
               /\ on_chain_configs' = r.on_chain_configs
               /\ outcome' = Some([op |-> "execute_chunk", ret |-> "Ok", publish |-> Some(r.ret)])
    /\ UNCHANGED <<reconfig_subscriptions, nonproxyvars>>

\* the database stops or resumes answering reads
StorageFlips ==
    /\ pc = "proxy"
    /\ storage' = [storage EXCEPT !.ok = ~@]
    /\ UNCHANGED <<reconfig_subscriptions, receivers, on_chain_configs, outcome, nonproxyvars>>

\* drop(reconfig_receiver)
DropReceiver(i) ==
    /\ pc = "proxy"
    /\ receivers[i].alive
    /\ receivers' = [receivers EXCEPT ![i] = [alive |-> FALSE, inbox |-> None]]
    /\ UNCHANGED <<storage, reconfig_subscriptions, on_chain_configs, outcome, nonproxyvars>>

\* reconfig_receiver.select_next_some()
Receive(i) ==
    /\ pc = "proxy"
    /\ receivers[i].alive
    /\ IsSome(receivers[i].inbox)
    /\ receivers' = [receivers EXCEPT ![i].inbox = None]
    /\ UNCHANGED <<storage, reconfig_subscriptions, on_chain_configs, outcome, nonproxyvars>>

ProxyNext ==
    \/ New
    \/ \E config_registry \in ConfigRegistries : NewForTest(config_registry)
    \/ \E events \in SUBSET EventKeys : PublishOnChainConfigUpdates(events)
    \/ \E chunk \in Chunks : ExecuteChunk(chunk)
    \/ \E id \in ConfigIds : Commit(id)
    \/ StorageFlips
    \/ \E i \in Subs : DropReceiver(i)
    \/ \E i \in Subs : Receive(i)

SpecProxy == ProxyInit /\ [][ProxyNext]_vars

-----------------------------------------------------------------------------
(* Properties of the pass *)

\* every UsageState the pass holds: the one being computed, the block states
\* kept by the dataflow engine, and the stored annotations
UsageStates ==
    {state} \cup {Unwrap(o) : o \in {x \in {fork, pend} \cup {targets[f] : f \in Funs} : IsSome(x)}}

MemoryUsages == {u[c] : u \in UsageStates, c \in Categories}

ExecPcs == {"entry", "then", "else", "exit"}

AllIsUnion(mu) == mu.all = mu.direct \cup mu.transitive

\* C1: in every MemoryUsage reachable from the default by add_direct,
\* add_transitive and join with other reachable values, the set `all` is the
\* union of `direct` and `transitive`.
C1_AllIsDirectUnionTransitive ==
    /\ \A mu \in MemoryUsages : AllIsUnion(mu)
    /\ \A a, b \in MemoryUsages : AllIsUnion(MemoryUsage_join(a, b).value)

\* a block entry state joined from a branch that inherited memory from a callee
C1_Witness ==
    /\ pc = "exit"
    /\ state.accessed.transitive # {}
    /\ state.accessed.all = state.accessed.transitive

AccessedCovers(u) ==
    \A k \in Kinds :
        u.modified[k] \cup u.assumed[k] \cup u.asserted[k] \subseteq u.accessed[k]

\* C2: in every reachable UsageState, for each of direct, transitive and all,
\* the accessed set contains the modified, assumed and asserted sets.
C2_AccessedCoversOthers == \A u \in UsageStates : AccessedCovers(u)

\* a state that inherited modified memory, and one that asserts memory itself
C2_Witness ==
    /\ state.modified.transitive # {}
    /\ \E f \in Funs : IsSome(targets[f]) /\ Unwrap(targets[f]).modified.direct # {}

\* C3: in every UsageState the analysis produces, accessed.all is exactly the
\* union of modified.all, assumed.all and asserted.all.
C3_AccessedIsUnionOfOthers ==
    \A f \in Funs :
        IsSome(targets[f]) =>
            LET u == Unwrap(targets[f])
            IN  u.accessed.all = u.modified.all \cup u.assumed.all \cup u.asserted.all

\* C4: join is commutative, associative and idempotent on the reachable
\* UsageState and MemoryUsage values, and joining a value with itself reports
\* Unchanged.
C4_JoinLatticeLaws ==
    LET J == [a \in UsageStates, b \in UsageStates |-> UsageState_join(a, b).value]
    IN  /\ \A a, b \in UsageStates : J[a, b] = J[b, a]
        /\ \A a, b, c \in UsageStates :
               UsageState_join(J[a, b], c).value = UsageState_join(a, J[b, c]).value
        /\ \A a \in UsageStates :
               UsageState_join(a, a) = [value |-> a, result |-> Unchanged]
        /\ \A a \in MemoryUsages :
               MemoryUsage_join(a, a) = [value |-> a, result |-> Unchanged]

\* two branch exit states about to be joined, neither of which absorbs the other
C4_Witness ==
    /\ pc = "else"
    /\ UsageState_join(Unwrap(pend), state).result = Changed
    /\ UsageState_join(state, Unwrap(pend)).result = Changed

\* the callee's `all` set of a category, instantiated with the call's type arguments
CalleeAll(code, cat) ==
    {instantiate_ref(mem, code.inst) : mem \in Unwrap(targets[code.fid])[cat].all}

\* C5: a call of a callee with a cached summary that is not delegated adds the
\* callee's instantiated `all` sets to the caller's transitive and all sets of
\* the same category and changes no direct set.
C5_OrdinaryCalleeIsTransitive ==
    \A code \in Calls :
        (pc \in ExecPcs /\ IsSome(targets[code.fid]) /\ ~delegated[code.fid]) =>
            LET post == execute(state, code, targets, delegated)
            IN  \A cat \in Categories :
                    /\ post[cat].transitive = state[cat].transitive \cup CalleeAll(code, cat)
                    /\ post[cat].all = state[cat].all \cup CalleeAll(code, cat)
                    /\ post[cat].direct = state[cat].direct

\* the caller q holds R<u64> as inherited only, from the R<#0> that p accesses directly
C5_Witness ==
    /\ cur = Some("q")
    /\ pc \in ExecPcs
    /\ IsSome(targets["p"])
    /\ Unwrap(targets["p"]).accessed.direct = {R_T}
    /\ Unwrap(targets["p"]).accessed.all = {R_T}
    /\ state.accessed.transitive = {R_u64}
    /\ state.accessed.all = {R_u64}
    /\ state.accessed.direct = {}

\* C6: a call of a callee with a cached summary that is delegated adds the
\* callee's instantiated `all` sets to the caller's direct and all sets of the
\* same category and changes no transitive set.
C6_DelegatedCalleeIsDirect ==
    \A code \in Calls :
        (pc \in ExecPcs /\ IsSome(targets[code.fid]) /\ delegated[code.fid]) =>
            LET post == execute(state, code, targets, delegated)
            IN  \A cat \in Categories :
                    /\ post[cat].direct = state[cat].direct \cup CalleeAll(code, cat)
                    /\ post[cat].all = state[cat].all \cup CalleeAll(code, cat)
                    /\ post[cat].transitive = state[cat].transitive

\* the caller p holds the ghost memory that q updates as its own modified memory:
\* no bytecode of p can put it there except the call
C6_Witness ==
    /\ cur = Some("p")
    /\ pc \in ExecPcs
    /\ IsSome(targets["q"])
    /\ G \in Unwrap(targets["q"]).modified.all
    /\ G \in state.modified.direct
    /\ state.modified.transitive = {}

AssertedKinds == {"Ensures", "AbortsIf", "Emits"}

\* the structs that the primary and the additional expressions of a condition use
CondUses == [cond \in Conditions |-> {u[1] : u \in cond_used_memory(cond)}]

\* C7: a declared Ensures, AbortsIf or Emits condition puts the memory used by
\* its expressions into asserted.direct and leaves assumed alone; a condition
\* of any other kind puts it into assumed.direct and leaves asserted alone.
C7_SpecUsageByKind ==
    pc = "spec" => \A cond \in Conditions :
        LET used == CondUses[cond]
            post == spec_usage_cond(state, cond)
        IN  IF cond.kind \in AssertedKinds
            THEN /\ post.asserted.direct = state.asserted.direct \cup used
                 /\ post.assumed = state.assumed
            ELSE /\ post.assumed.direct = state.assumed.direct \cup used
                 /\ post.asserted = state.asserted

\* the first condition folded was a postcondition on R<#0> with a ghost memory
\* target as additional expression: no single bytecode uses both structs
C7_Witness ==
    /\ nsteps = 1
    /\ pc = "spec"
    /\ state.asserted.direct = {R_T, G}
    /\ state.assumed.direct = {}

Leq(u, v) == \A cat \in Categories : \A k \in Kinds : u[cat][k] \subseteq v[cat][k]

\* C10: a step of the transfer function, of compute_spec_usage or of join
\* removes no element from any of the twelve sets of the state.
C10_Monotone ==
    [][/\ (pc \in ExecPcs /\ pc' = pc) => Leq(state, state')
       /\ (pc = "spec" /\ pc' = "spec") => Leq(state, state')
       /\ (pc = "else" /\ pc' = "exit") =>
              Leq(Unwrap(pend), state') /\ Leq(state, state')]_vars

\* a state that grew in each of two steps
C10_Witness ==
    /\ nsteps = 2
    /\ Cardinality(state.accessed.direct) = 2
    /\ state.modified.direct # {}
    /\ state.modified.direct # state.accessed.direct

-----------------------------------------------------------------------------
(* Properties of the fixed-point runs *)

HasCode(pr, f, code) == \E b \in 1..Len(pr[f].blocks) : pr[f].blocks[b] = <<code>>

\* p writes W and calls q, q calls p, and neither delegates invariant checking
MutuallyRecursive ==
    /\ HasCode(prog, "p", CallMem("MoveTo", W))
    /\ HasCode(prog, "p", CallFun("Function", "q", <<>>))
    /\ HasCode(prog, "q", CallFun("Function", "p", <<>>))
    /\ \A f \in Funs : ~delegated[f]

WInSummaryOfQ ==
    /\ IsSome(targets["q"])
    /\ LET s == Unwrap(targets["q"])
       IN  /\ W \in s.modified.transitive
           /\ W \in s.modified.all
           /\ W \in s.accessed.transitive
           /\ W \in s.accessed.all

\* C8: when p writes W and calls q, and q calls p, neither delegated, the
\* iteration over the component of p and q eventually ends after a round in
\* which no summary changed, and the final summary of q has W in
\* modified.transitive, modified.all, accessed.transitive and accessed.all.
C8_MutualRecursionConverges ==
    MutuallyRecursive ~> (pc = "done" /\ ~round.changed /\ WInSummaryOfQ)

\* the iteration of p and q has ended after more than one round, and q,
\* which writes nothing itself, has W through its call of p
C8_Witness ==
    /\ MutuallyRecursive
    /\ ~HasCode(prog, "q", CallMem("MoveTo", W))
    /\ pc = "done"
    /\ round.n > 1
    /\ WInSummaryOfQ
    /\ W \notin Unwrap(targets["q"]).modified.direct

\* the height of the UsageState lattice: every struct can enter the direct
\* and the transitive set of every category
LatticeHeight == 2 * Cardinality(FixMems) * Cardinality(Categories)

IterationBound(f) == NumBlocks(prog[f].shape) * (1 + LatticeHeight)

\* C9 (as the claim states it): the fixed point of a function is reached in
\* at most |universe of structs| * |categories| iterations of the worklist.
C9_ReachedWithinUniverseTimesCategories ==
    pc = "work" => iters <= Cardinality(FixMems) * Cardinality(Categories)

\* C9 (amended): the fixed point computation of a function always ends, and
\* it ends in at most |blocks| * (1 + 2 * |universe of structs| * |categories|)
\* iterations of the worklist.
C9_FixedPointTerminates ==
    /\ [](pc = "work" => iters <= IterationBound(Unwrap(cur)))
    /\ (pc = "work") ~> (pc = "next")

\* a fixed point reached after more iterations than structs times categories
C9_Witness ==
    /\ pc = "work"
    /\ work_list = <<>>
    /\ iters > Cardinality(FixMems) * Cardinality(Categories)
    /\ iters <= IterationBound(Unwrap(cur))

-----------------------------------------------------------------------------
(* Properties of the transfer function on calls and on Prop instructions *)

\* the block states that the worklist holds for the function in work
BlockStates ==
    UNION {{Unwrap(state_map[b]).pre, Unwrap(state_map[b]).post} :
               b \in {x \in DOMAIN state_map : IsSome(state_map[x])}}

\* C11: a call of a callee for which the cache has no summary leaves the
\* state of the caller as it is, and the transfer function does not fail.
C11_NoSummaryNoEffect ==
    pc = "work" =>
        \A code \in Calls :
            ~IsSome(cache_get(targets, code.fid)) =>
                /\ ~execute_aborts(code)
                /\ \A st \in BlockStates : execute(st, code, targets, delegated) = st

\* p is summarized first and calls q, which has no summary yet: in the loop
\* of p the state {W} at the entry of the call block is also its exit state
C11_Witness ==
    /\ cur = Some("p")
    /\ pc = "work"
    /\ targets["q"] = None
    /\ prog["p"].shape = "loop"
    /\ prog["p"].blocks[2] = <<CallMem("MoveTo", W)>>
    /\ prog["p"].blocks[3] = <<CallFun("Function", "q", <<>>)>>
    /\ work_list = <<>>
    /\ Unwrap(state_map[3]).pre.modified.direct = {W}
    /\ Unwrap(state_map[3]).post = Unwrap(state_map[3]).pre

\* C19: on a Prop instruction of kind Modifies the transfer function panics:
\* the state is not updated, and no step of the pass follows the panic.
C19_ModifiesInBodyIsFatal ==
    [][/\ pc # "panic"
       /\ \A exp \in Exps :
              Execute(Prop("Modifies", exp)) =>
                  pc' = "panic" /\ state' = state /\ targets' = targets]_vars

\* the pass stopped by a panic in q, after the state of q had grown
C19_Witness ==
    /\ pc = "panic"
    /\ cur = Some("q")
    /\ state.accessed.direct # {}
    /\ targets["q"] = None

\* C20: MemoryUsage::join and UsageState::join join every component: each set
\* of the result is the union of the two sets, and the result is Changed
\* exactly when some set of `other` is not contained in the set of `self`.
C20_JoinIsComponentwiseUnion ==
    /\ \A a, b \in UsageStates :
           LET j == UsageState_join(a, b)
           IN  /\ \A cat \in Categories : \A k \in Kinds :
                      j.value[cat][k] = a[cat][k] \cup b[cat][k]
               /\ (j.result = Changed) <=>
                      \E cat \in Categories : \E k \in Kinds :
                          ~(b[cat][k] \subseteq a[cat][k])
    /\ \A a, b \in MemoryUsages :
           LET j == MemoryUsage_join(a, b)
           IN  /\ \A k \in Kinds : j.value[k] = a[k] \cup b[k]
               /\ (j.result = Changed) <=> \E k \in Kinds : ~(b[k] \subseteq a[k])

\* two branch exit states about to be joined: the first record, accessed,
\* gains an element, and a later record, modified, gains one too
C20_Witness ==
    /\ pc = "else"
    /\ ~(state.accessed.all \subseteq Unwrap(pend).accessed.all)
    /\ ~(state.modified.all \subseteq Unwrap(pend).modified.all)
    /\ UsageState_join(Unwrap(pend), state).value.modified.all
           = Unwrap(pend).modified.all \cup state.modified.all

-----------------------------------------------------------------------------
(* Properties of the functions of ExpData *)

IsReturn(op) == IsSome(result) /\ Unwrap(result).op = op

\* the expression and every expression below it
RECURSIVE SubExps(_)
SubExps(e) == {e} \cup UNION {SubExps(Children(e)[i]) : i \in 1..Len(Children(e))}

Declares(e, s) == e.kind \in {"Lambda", "Block", "Quant"} /\ InSeq(s, DeclNames(e))

\* e binds s, and a scope nested in e binds s again
Rebinds(e, s) ==
    /\ Declares(e, s)
    /\ \E i \in 1..Len(Children(e)) : \E sub \in SubExps(Children(e)[i]) : Declares(sub, s)

ReturnedSymbols == {Unwrap(result).val[i][1] : i \in 1..Len(Unwrap(result).val)}

\* C12: when a quantifier binds a symbol and a scope nested in it binds the
\* symbol again, free_vars reports no occurrence of the symbol inside the
\* outer quantifier as free, the occurrences after the inner scope included.
C12_InnerScopeKeepsOuterBinding ==
    IsReturn("free_vars") =>
        \A s \in Symbols : Rebinds(Unwrap(expr), s) => s \notin ReturnedSymbols

\* exists x: .. (forall x: .. x) + x, with the last x after the inner quantifier
C12_Witness ==
    /\ expr = Some(OuterQuant("x", LocalVar(26, "x"), None,
                       Call(35, Oper("Add"),
                            <<InnerQuant("x", LocalVar(27, "y"), x_bool), x_u64>>)))
    /\ IsReturn("free_vars")
    /\ Unwrap(result).val = <<<<"y", "address">>>>

\* the LocalVar occurrences of e, left to right, that no enclosing Lambda,
\* Block or Quant declaring the name encloses; the range and the binding
\* expressions of a node count as enclosed by it
RECURSIVE FreeOccs(_, _)
FreeOccs(e, bound) ==
    LET all(es, b) == Flatten([i \in 1..Len(es) |-> FreeOccs(es[i], b)])
        inner == bound \cup {DeclNames(e)[i] : i \in 1..Len(DeclNames(e))}
    IN  CASE e.kind = "LocalVar" -> IF e.sym \in bound THEN <<>> ELSE <<e>>
          [] e.kind \in {"Call", "IfElse"} -> all(e.args, bound)
          [] e.kind = "Invoke" -> FreeOccs(e.target, bound) \o all(e.args, bound)
          [] e.kind = "Lambda" -> FreeOccs(e.body, inner)
          [] e.kind = "Block" ->
                Flatten([i \in 1..Len(e.decls) |-> all(BindingOf(e.decls[i]), inner)])
                \o FreeOccs(e.body, inner)
          [] e.kind = "Quant" ->
                Flatten([i \in 1..Len(e.ranges) |->
                            all(BindingOf(e.ranges[i][1]), inner)
                            \o FreeOccs(e.ranges[i][2], inner)])
                \o Flatten([i \in 1..Len(e.triggers) |-> all(e.triggers[i], inner)])
                \o (IF IsSome(e.condition) THEN FreeOccs(Unwrap(e.condition), inner) ELSE <<>>)
                \o FreeOccs(e.body, inner)
          [] OTHER -> <<>>

\* the first occurrence of every symbol
RECURSIVE FirstOccs(_, _)
FirstOccs(occs, seen) ==
    IF occs = <<>> THEN <<>>
    ELSE IF Head(occs).sym \in seen THEN FirstOccs(Tail(occs), seen)
    ELSE <<Head(occs)>> \o FirstOccs(Tail(occs), seen \cup {Head(occs).sym})

\* C13: free_vars returns, without duplicates and in the order of their first
\* free occurrence, exactly the symbols that have a LocalVar occurrence
\* enclosed by no Lambda, Block or Quant declaring them (with the type of
\* that first occurrence).
C13_FreeVarsAreFirstFreeOccurrences ==
    IsReturn("free_vars") =>
        LET first == FirstOccs(FreeOccs(Unwrap(expr), {}), {})
        IN  Unwrap(result).val =
                [i \in 1..Len(first) |-> <<first[i].sym, get_node_type(first[i].id)>>]

\* (forall y: x .. x) + y: x is free twice, y is bound inside and free after
C13_Witness ==
    /\ expr = Some(Call(35, Oper("Add"),
                        <<InnerQuant("y", LocalVar(26, "x"), x_bool), y_address>>))
    /\ IsReturn("free_vars")
    /\ Unwrap(result).val = <<<<"x", "u64">>, <<"y", "address">>>>

RewriteOps == {"rewrite", "rewrite_node_id", "rewrite_exp_and_node_id"}

\* C14: rewriting with an expression rewriter that always declines and a
\* node id rewriter that always returns None returns a tree equal to the
\* original, through each of the three rewriting functions.
C14_DecliningRewriteIsIdentity ==
    (IsSome(result) /\ Unwrap(result).op \in RewriteOps
       /\ Unwrap(result).args = <<"decline", "none">>) =>
        Unwrap(result).val = Unwrap(expr)

\* a quantifier with trigger and condition around a block, rebuilt node by node
C14_Witness ==
    /\ expr = Some(OuterQuant("y", e_fun_pure, Some(LocalVar(30, "x")),
                       Call(35, Oper("Add"),
                            <<InnerBlock("x", LocalVar(27, "y"), e_exists_R), t_val>>)))
    /\ IsReturn("rewrite_exp_and_node_id")
    /\ Unwrap(result).args = <<"decline", "none">>
    /\ Unwrap(result).val = Unwrap(expr)

\* a temporary of mutable reference type, an Exists or Global call, or a call
\* of a specification function that declares used memory
ImpureNode(e) ==
    \/ e.kind = "Temporary" /\ is_mutable_reference(get_node_type(e.id))
    \/ e.kind = "Call" /\ e.oper.op \in {"Exists", "Global"}
    \/ e.kind = "Call" /\ e.oper.op = "Function" /\ SpecFun_used_memory(e.oper.fid) # <<>>

\* C15: is_pure returns false exactly when the expression contains, at any
\* depth, an impure node, and true for every other expression.
C15_IsPureIffNoImpureNode ==
    IsReturn("is_pure") =>
        (Unwrap(result).val <=> ~\E sub \in SubExps(Unwrap(expr)) : ImpureNode(sub))

\* a labelled Global two levels down makes the selection impure
C15_Witness ==
    /\ expr = Some(e_select_R)
    /\ IsReturn("is_pure")
    /\ Unwrap(result).val = FALSE

-----------------------------------------------------------------------------
(* Claims about the executor proxy *)

IsCall(op) == IsSome(outcome) /\ Unwrap(outcome).op = op

PublishedTo == Unwrap(outcome).published

Returns == Unwrap(outcome).ret

\* the registered configs on chain whose value is not the one the proxy stores
ChangedOnChain ==
    {id \in ON_CHAIN_CONFIG_REGISTRY \cap DOMAIN storage.configs :
        \/ id \notin DOMAIN Unwrap(on_chain_configs).configs
        \/ Unwrap(on_chain_configs).configs[id] # storage.configs[id]}

Matching(i, events) ==
    \/ ChangedOnChain \cap reconfig_subscriptions[i].configs # {}
    \/ events \cap reconfig_subscriptions[i].events # {}

\* C16 as stated: during publish_on_chain_config_updates a subscription is
\* published to if and only if the event list is non-empty and either a config
\* that changed or newly appeared relative to the stored on_chain_configs is
\* among its subscribed configs or a key of the given events is among its
\* subscribed events.
C16_NotifiedIffMatching ==
    [][\A events \in SUBSET EventKeys :
          PublishOnChainConfigUpdates(events) =>
              \A i \in Subs :
                  i \in PublishedTo' <=> (events # {} /\ Matching(i, events))]_vars

\* C16 amended: during publish_on_chain_config_updates a subscription is
\* published to if and only if the event list is non-empty, the configs could be
\* fetched from storage, and either a changed or new config is among its
\* subscribed configs or a key of the given events is among its subscribed
\* events; when the fetch fails nothing is published to any subscription.
C16_NotifiedIffFetchedAndMatching ==
    [][\A events \in SUBSET EventKeys :
          PublishOnChainConfigUpdates(events) =>
              \A i \in Subs :
                  i \in PublishedTo' <=>
                      (events # {} /\ storage.ok /\ Matching(i, events))]_vars

\* a call with events that published to one subscription and not to the other
C16_Witness ==
    /\ IsCall("publish_on_chain_config_updates")
    /\ Unwrap(outcome).args # {}
    /\ PublishedTo # {}
    /\ PublishedTo # Subs

FailedPublish == \E i \in PublishedTo' : ~receivers[i].alive

\* C17 as stated: publish_on_chain_config_updates returns an error when
\* publishing to at least one matching subscription fails, and returns Ok when
\* the event list is empty or when every attempted publish succeeds, which
\* includes the case that no subscription matches.
C17_ErrIffSomePublishFails ==
    [][\A events \in SUBSET EventKeys :
          PublishOnChainConfigUpdates(events) =>
              /\ FailedPublish => Returns' = "Err"
              /\ (events = {} \/ ~FailedPublish) => Returns' = "Ok"]_vars

\* C17 amended: publish_on_chain_config_updates returns an error when the event
\* list is non-empty and either the configs cannot be fetched from storage or
\* publishing to at least one matching subscription fails; it returns Ok when
\* the event list is empty, or when the fetch succeeds and every attempted
\* publish succeeds, which includes the case that no subscription matches.
C17_ErrIffFetchOrSomePublishFails ==
    [][\A events \in SUBSET EventKeys :
          PublishOnChainConfigUpdates(events) =>
              /\ (events # {} /\ (~storage.ok \/ FailedPublish)) => Returns' = "Err"
              /\ (events = {} \/ (storage.ok /\ ~FailedPublish)) => Returns' = "Ok"]_vars

\* a call that fetched the configs, published to a dropped receiver and failed
C17_Witness ==
    /\ IsCall("publish_on_chain_config_updates")
    /\ IsSome(Unwrap(outcome).payload)
    /\ \E i \in PublishedTo : ~receivers[i].alive
    /\ Returns = "Err"

\* what a fetch with this registry has to return: the configs of the registry
\* that exist on chain, with their values on chain
FetchableConfigs(config_registry) ==
    [id \in {c \in config_registry : c \in DOMAIN storage.configs} |-> storage.configs[id]]

Constructs(config_registry) ==
    \/ config_registry = ON_CHAIN_CONFIG_REGISTRY /\ New
    \/ NewForTest(config_registry)

\* C18: a config of the registry whose resource cannot be fetched does not
\* make the construction of the proxy or a later publish fail.  With readable
\* storage and live receivers the construction succeeds, and a later publish
\* fails only for a failed fetch or a dropped receiver; the payload handed out
\* by either holds exactly the configs of the consulted registry that exist on
\* chain, so never the missing one, and it is what each live receiver that was
\* published to then finds.
C18_MissingConfigIsSkipped ==
    [][/\ \A config_registry \in ConfigRegistries :
            (Constructs(config_registry) /\ storage.ok /\ \A i \in Subs : receivers[i].alive) =>
                /\ Returns' = "Ok"
                /\ IsSome(on_chain_configs')
                /\ Unwrap(on_chain_configs').configs = FetchableConfigs(config_registry)
                /\ \A i \in Subs : receivers'[i].inbox = on_chain_configs'
       /\ \A events \in SUBSET EventKeys :
            (PublishOnChainConfigUpdates(events) /\ events # {} /\ storage.ok) =>
                /\ Returns' = "Err" => FailedPublish
                /\ Unwrap(on_chain_configs').configs = FetchableConfigs(ON_CHAIN_CONFIG_REGISTRY)
                /\ Unwrap(outcome').payload = on_chain_configs'
                /\ \A i \in PublishedTo' :
                      receivers[i].alive => receivers'[i].inbox = on_chain_configs']_vars

\* the proxy was constructed with a registry one of whose configs is not on
\* chain, and a later publish notified a subscriber without that config
C18_Witness ==
    /\ IsCall("publish_on_chain_config_updates")
    /\ Returns = "Ok"
    /\ PublishedTo # {}
    /\ \E id \in ON_CHAIN_CONFIG_REGISTRY :
          /\ id \notin DOMAIN storage.configs
          /\ id \notin DOMAIN Unwrap(Unwrap(outcome).payload).configs
    /\ \E i \in PublishedTo : receivers[i].inbox = Unwrap(outcome).payload

-----------------------------------------------------------------------------
(* The transfer function, instruction by instruction *)

WriteCodes ==
    {CallMem(op, mem) : op \in WriteOps, mem \in Mems}
    \cup {CallWriteBack("GlobalRoot", mem) : mem \in Mems}

ReadCodes == {CallMem(op, mem) : op \in ReadOps, mem \in Mems}

\* the sets of the record `mu` other than those named in `grown` are as before,
\* and each set named in `grown` gained exactly `mems`
GrewBy(pre, post, grown, mems) ==
    \A cat \in Categories : \A k \in Kinds :
        post[cat][k] = IF <<cat, k>> \in grown THEN pre[cat][k] \cup mems ELSE pre[cat][k]

\* C21: a MoveTo, MoveFrom or BorrowGlobal on an instantiated struct, and a
\* WriteBack to a global root, insert the struct into modified.direct,
\* modified.all, accessed.direct and accessed.all and change no transitive,
\* assumed or asserted set; a WriteBack to any other borrow node changes nothing.
C21_WritesAreDirectModified ==
    pc \in ExecPcs =>
        /\ \A code \in WriteCodes :
              GrewBy(state, execute(state, code, targets, delegated),
                     {<<"modified", "direct">>, <<"modified", "all">>,
                      <<"accessed", "direct">>, <<"accessed", "all">>}, {code.mem})
        /\ \A node \in {"LocalRoot", "Reference"} :
              execute(state, CallWriteBack(node, R_T), targets, delegated) = state

\* the first instruction of a function, before any summary exists, was a write
C21_Witness ==
    /\ pc \in ExecPcs
    /\ nsteps = 1
    /\ \A f \in Funs : targets[f] = None
    /\ state.modified.direct = {R_T}
    /\ state.accessed.direct = {R_T}
    /\ state.assumed.all = {}
    /\ state.asserted.all = {}

\* C22: an Exists or GetGlobal on an instantiated struct inserts the struct
\* into accessed.direct and accessed.all only; modified, assumed, asserted and
\* accessed.transitive stay as they are.
C22_ReadsAreDirectAccessedOnly ==
    pc \in ExecPcs =>
        \A code \in ReadCodes :
            GrewBy(state, execute(state, code, targets, delegated),
                   {<<"accessed", "direct">>, <<"accessed", "all">>}, {code.mem})

\* the first instruction of a function, before any summary exists, was a read
C22_Witness ==
    /\ pc \in ExecPcs
    /\ nsteps = 1
    /\ \A f \in Funs : targets[f] = None
    /\ state.accessed.direct = {R_T}
    /\ state.accessed.all = {R_T}
    /\ state.modified.all = {}
    /\ state.assumed.all = {}
    /\ state.asserted.all = {}

\* the structs of the used-memory set of an expression, read off the tree: the
\* struct of every Exists and Global node and the instantiated memory of every
\* specification function called, at whatever label
StructsUsed(e) ==
    {get_node_instantiation(n.id)[1] :
        n \in {m \in SubExps(e) : m.kind = "Call" /\ m.oper.op \in {"Exists", "Global"}}}
    \cup UNION {{instantiate_ref(SpecFun_used_memory(n.oper.fid)[i], get_node_instantiation(n.id))
                    : i \in 1..Len(SpecFun_used_memory(n.oper.fid))} :
                n \in {m \in SubExps(e) : m.kind = "Call" /\ m.oper.op = "Function"}}

\* C23: a Prop of kind Assume (resp. Assert) inserts every struct of the
\* used-memory set of its expression, label discarded, into assumed.direct
\* (resp. asserted.direct) and into accessed.direct, and changes neither the
\* other of assumed and asserted, nor modified, nor any transitive set.
C23_PropUsesAreDirect ==
    pc \in ExecPcs =>
        \A exp \in Exps :
            /\ GrewBy(state, execute(state, Prop("Assume", exp), targets, delegated),
                      {<<"assumed", "direct">>, <<"assumed", "all">>,
                       <<"accessed", "direct">>, <<"accessed", "all">>}, StructsUsed(exp))
            /\ GrewBy(state, execute(state, Prop("Assert", exp), targets, delegated),
                      {<<"asserted", "direct">>, <<"asserted", "all">>,
                       <<"accessed", "direct">>, <<"accessed", "all">>}, StructsUsed(exp))

\* an Assume over memory of R<u64> read at a label, then an Assert over R<#0>
C23_Witness ==
    /\ pc \in ExecPcs
    /\ nsteps = 2
    /\ \A f \in Funs : targets[f] = None
    /\ state.assumed.direct = {R_u64}
    /\ state.asserted.direct = {R_T}
    /\ state.accessed.direct = {R_T, R_u64}
    /\ state.modified.all = {}

UpdateConditions == {cond \in Conditions : cond.kind = "Update"}

\* field-select of an unlabelled global read of a struct named with the prefix
IsGhostTarget(e) ==
    /\ e.kind = "Call" /\ e.oper.op = "Select"
    /\ e.args[1].kind = "Call" /\ e.args[1].oper = OpGlobal(None)
    /\ Head(SymbolString(get_node_type_struct(e.args[1].id).id)) = "Ghost$"

\* C24: for a declared Update condition, compute_spec_usage inserts the ghost
\* memory struct into modified.direct exactly when the first additional
\* expression is a field-select of an unlabelled global read of a struct whose
\* name starts with the ghost memory prefix; for a labelled read, a struct that
\* is no ghost memory, or an expression that is no select, modified is
\* unchanged.  Either way the memory the condition's expressions use is
\* inserted into assumed.direct.
C24_UpdateModifiesGhostTarget ==
    pc = "spec" => \A cond \in UpdateConditions :
        LET post == spec_usage_cond(state, cond)
            target == cond.additional_exps[1]
        IN  /\ IF IsGhostTarget(target)
               THEN post.modified.direct =
                        state.modified.direct \cup {get_node_type_struct(target.args[1].id)}
               ELSE post.modified = state.modified
            /\ post.assumed.direct = state.assumed.direct \cup CondUses[cond]

\* the first condition folded was an Update of the ghost memory, and nothing
\* else can have put the ghost memory into modified.direct
C24_Witness ==
    /\ pc = "spec"
    /\ nsteps = 1
    /\ \A f \in Funs : targets[f] = None
    /\ state.modified.direct = {G}
    /\ G \in state.assumed.direct
    /\ state.asserted.direct = {}

-----------------------------------------------------------------------------
(* The stored summary *)

\* the structs the declared conditions of a function use
SpecUses(f) ==
    UNION {StructsUsed(prog[f].spec[i].exp) : i \in 1..Len(prog[f].spec)}

Reached == {b \in DOMAIN state_map : IsSome(state_map[b])}

JoinAll(states) ==
    [cat \in Categories |-> [k \in Kinds |-> UNION {u[cat][k] : u \in states}]]

\* the block states solve the dataflow equations of the function, from the
\* empty state at the entry block
BytecodeFixedPoint(f) ==
    /\ entry_block(prog[f].shape) \in Reached
    /\ \A b \in Reached :
          /\ Unwrap(state_map[b]).post =
                 execute_block(prog[f].blocks[b], Unwrap(state_map[b]).pre, targets, delegated)
          /\ \A i \in 1..Len(successors(prog[f].shape, b)) :
                 successors(prog[f].shape, b)[i] \in Reached
          /\ Unwrap(state_map[b]).pre =
                 JoinAll({Unwrap(state_map[a]).post :
                             a \in {x \in Reached :
                                       \E i \in 1..Len(successors(prog[f].shape, x)) :
                                           successors(prog[f].shape, x)[i] = b}}
                         \cup (IF b = entry_block(prog[f].shape)
                               THEN {UsageState_default} ELSE {}))

\* C25: the summary stored for a function is the exit state of the bytecode
\* fixed point from the empty state, with the memory of the declared
\* specification added to it once; so the stored summary holds the declared
\* memory, and the summary stored for a caller holds what the summaries of its
\* callees held, as transitive memory, or as direct memory for a callee whose
\* invariant checking is delegated.
C25_SummaryIsFixedPointPlusSpec ==
    [][FinishFun =>
        LET f == Unwrap(cur)
            stored == Unwrap(targets'[f])
        IN  /\ BytecodeFixedPoint(f)
            /\ GrewBy(Unwrap(state_map[exit_block(prog[f].shape)]).post, stored,
                      {<<"asserted", "direct">>, <<"asserted", "all">>,
                       <<"accessed", "direct">>, <<"accessed", "all">>}, SpecUses(f))
            /\ \A g \in Callees(prog, f) :
                  IsSome(targets[g]) =>
                      \A cat \in Categories :
                          Unwrap(targets[g])[cat].all \subseteq
                              stored[cat][IF delegated[g] THEN "direct" ELSE "transitive"]]_vars

\* p declares nothing and calls q, q has no code and declares a postcondition
\* over W: the summary stored for p holds W as asserted by a callee
C25_Witness ==
    /\ prog # <<>>
    /\ prog["p"].spec = <<>>
    /\ prog["q"].spec # <<>>
    /\ \A b \in DOMAIN prog["q"].blocks : prog["q"].blocks[b] = <<>>
    /\ ~delegated["q"]
    /\ IsSome(targets["p"])
    /\ W \in Unwrap(targets["p"]).asserted.transitive
    /\ W \notin Unwrap(targets["p"]).asserted.direct

-----------------------------------------------------------------------------
(* The order of the traversal *)

\* the binder binding if present, then the domain expression, of each range
RECURSIVE RangeExpsOf(_)
RangeExpsOf(ranges) ==
    IF ranges = <<>> THEN <<>>
    ELSE (IF Head(ranges)[1].binding = None THEN <<>> ELSE <<Head(ranges)[1].binding[1]>>)
         \o <<Head(ranges)[2]>> \o RangeExpsOf(Tail(ranges))

RECURSIVE BindingsOf(_)
BindingsOf(decls) ==
    IF decls = <<>> THEN <<>>
    ELSE (IF Head(decls).binding = None THEN <<>> ELSE <<Head(decls).binding[1]>>)
         \o BindingsOf(Tail(decls))

RECURSIVE Concat(_)
Concat(groups) == IF groups = <<>> THEN <<>> ELSE Head(groups) \o Concat(Tail(groups))

\* the sub-expressions of a node in the order the traversal has to take them
ExpectedChildren(n) ==
    CASE n.kind = "Quant" ->
            RangeExpsOf(n.ranges) \o Concat(n.triggers)
            \o (IF n.condition = None THEN <<>> ELSE <<n.condition[1]>>) \o <<n.body>>
      [] n.kind = "IfElse" -> <<n.args[1], n.args[2], n.args[3]>>
      [] n.kind = "Call" -> n.args
      [] n.kind = "Invoke" -> <<n.target>> \o n.args
      [] n.kind = "Lambda" -> <<n.body>>
      [] n.kind = "Block" -> BindingsOf(n.decls) \o <<n.body>>
      [] OTHER -> <<>>

RECURSIVE NodeCount(_)
NodeCount(n) ==
    LET RECURSIVE Sum(_)
        Sum(seq) == IF seq = <<>> THEN 0 ELSE NodeCount(Head(seq)) + Sum(Tail(seq))
    IN  1 + Sum(ExpectedChildren(n))

\* the number of visits that have begun and not ended before call i
DepthBefore(evs, i) ==
    Cardinality({k \in 1..(i - 1) : ~evs[k].up}) - Cardinality({k \in 1..(i - 1) : evs[k].up})

\* the calls with flag true that end a visit begun by call i
Ends(evs, i) ==
    {j \in (i + 1)..Len(evs) : evs[j].up /\ DepthBefore(evs, j) = DepthBefore(evs, i) + 1}

Min(S) == CHOOSE x \in S : \A y \in S : x <= y

\* the nodes whose visit begins directly inside the visit begun by call i
RECURSIVE InOrder(_, _)
InOrder(evs, idx) ==
    IF idx = {} THEN <<>> ELSE <<evs[Min(idx)].e>> \o InOrder(evs, idx \ {Min(idx)})

DirectlyInside(evs, i) ==
    InOrder(evs, {k \in (i + 1)..(Min(Ends(evs, i)) - 1) :
                     ~evs[k].up /\ DepthBefore(evs, k) = DepthBefore(evs, i) + 1})

\* C26: visit_pre_post calls the visitor twice for every node, with flag false
\* before any descendant is visited and with flag true after all of them, the
\* calls properly nested, and takes the children in a fixed order: for a
\* quantifier each range (the binder binding if present, then the domain), then
\* the trigger groups, then the filter if present, then the body; for a
\* conditional the condition, the then-branch, the else-branch.
C26_VisitIsNestedAndOrdered ==
    IsReturn("visit_pre_post") =>
        LET evs == Unwrap(result).val
        IN  /\ Len(evs) = 2 * NodeCount(Unwrap(expr))
            /\ evs[1] = [up |-> FALSE, e |-> Unwrap(expr)]
            /\ Min(Ends(evs, 1)) = Len(evs)
            /\ \A i \in 1..Len(evs) :
                  IF evs[i].up
                  THEN DepthBefore(evs, i) >= 1
                  ELSE /\ Ends(evs, i) # {}
                       /\ evs[Min(Ends(evs, i))].e = evs[i].e
                       /\ DirectlyInside(evs, i) = ExpectedChildren(evs[i].e)

\* the traversal of the quantifier with a bound binder, triggers and a filter
C26_Witness ==
    /\ IsReturn("visit_pre_post")
    /\ expr = Some(e_quant_full)
    /\ Len(Unwrap(result).val) = 20

-----------------------------------------------------------------------------
(* Dependence on memory *)

\* C27: uses_memory tells whether the operation or expression depends on
\* global memory: Operation::uses_memory returns true for Exists and Global and
\* false for an operation that does not depend on memory, such as Add, and
\* ExpData::uses_memory returns true exactly when the expression contains an
\* Exists or Global operation.
C27_UsesMemoryIffMemoryOperation ==
    /\ IsReturn("Operation::uses_memory") =>
          /\ Unwrap(expr).oper.op \in {"Exists", "Global"} => Unwrap(result).val = TRUE
          /\ Unwrap(expr).oper.op = "Add" => Unwrap(result).val = FALSE
    /\ IsReturn("ExpData::uses_memory") =>
          Unwrap(result).val =
              (\E n \in SubExps(Unwrap(expr)) :
                  n.kind = "Call" /\ n.oper.op \in {"Exists", "Global"})

\* usage states a Prop or a declared condition is folded into
SampleStates == {UsageState_default, add_direct_modified(UsageState_default, R_T)}

\* C30: purity and used memory agree.  An expression whose used_memory is not
\* empty is not pure; an expression that is pure has an empty used_memory, and
\* as the expression of an Assume, an Assert or a declared condition it adds
\* nothing to any set of a UsageState.
C30_PureUsesNoMemory ==
    /\ (IsReturn("used_memory") /\ Unwrap(result).val # {}) => ~is_pure(Unwrap(expr))
    /\ (IsReturn("is_pure") /\ Unwrap(result).val = TRUE) =>
          /\ used_memory(Unwrap(expr)) = {}
          /\ \A st \in SampleStates :
                /\ \A kind \in {"Assume", "Assert"} :
                      execute(st, Prop(kind, Unwrap(expr)), targets, delegated) = st
                /\ \A kind \in ConditionKinds \ {"Update"} :
                      spec_usage_cond(st, Condition(kind, Unwrap(expr), <<>>)) = st

\* used_memory of an expression whose only memory is what a specification
\* function reads at a label
C30_Witness ==
    /\ IsReturn("used_memory")
    /\ expr = Some(e_fun_mem_at)
    /\ Unwrap(result).val = {<<R_u64, Some("L1")>>}

-----------------------------------------------------------------------------
(* What a publish leaves behind *)

\* C28: a call of publish_on_chain_config_updates with events, for which the
\* configs can be fetched, replaces the stored on_chain_configs by the fetched
\* ones even if a publish fails, and a failed publish to one subscription does
\* not keep the other matching subscriptions from being notified; a call
\* without events, or for which the fetch fails, leaves on_chain_configs as it
\* is and publishes nothing.
C28_StoredConfigsFollowFetch ==
    [][\A events \in SUBSET EventKeys :
          PublishOnChainConfigUpdates(events) =>
              IF events # {} /\ storage.ok
              THEN /\ on_chain_configs' =
                          Some([epoch |-> storage.epoch,
                                configs |-> FetchableConfigs(ON_CHAIN_CONFIG_REGISTRY)])
                   /\ \A i \in Subs :
                          (Matching(i, events) /\ receivers[i].alive) =>
                              receivers'[i].inbox = on_chain_configs'
              ELSE /\ on_chain_configs' = on_chain_configs
                   /\ receivers' = receivers
                   /\ PublishedTo' = {}]_vars

\* both subscriptions matched, the receiver of the first was dropped, and the
\* second found the payload that the proxy now stores
C28_Witness ==
    /\ IsCall("publish_on_chain_config_updates")
    /\ Returns = "Err"
    /\ PublishedTo = {1, 2}
    /\ ~receivers[1].alive
    /\ receivers[2].alive
    /\ receivers[2].inbox = Unwrap(outcome).payload
    /\ on_chain_configs = Unwrap(outcome).payload
    /\ on_chain_configs # Unwrap(outcome).old

\* C29: execute_chunk returns Ok exactly when execute_and_commit_chunk
\* succeeded, whatever the publishing of the reconfiguration answered.  When the
\* chunk executor fails, no receiver is notified and on_chain_configs keeps its
\* value.  Only the new-epoch events of the chunk reach the publishing: a chunk
\* with other events alone notifies nobody and leaves on_chain_configs alone,
\* and a chunk with a new-epoch event publishes what storage holds after the
\* commit to every live subscriber of that event.
C29_ExecuteChunkDropsPublishError ==
    [][\A chunk \in Chunks :
          ExecuteChunk(chunk) =>
              /\ Returns' = (IF chunk.ok THEN "Ok" ELSE "Err")
              /\ (~chunk.ok \/ new_epoch_event_key \notin chunk.events) =>
                     /\ receivers' = receivers
                     /\ on_chain_configs' = on_chain_configs
                     /\ storage' = storage
                     /\ Unwrap(outcome').publish = (IF chunk.ok THEN Some("Ok") ELSE None)
              /\ (chunk.ok /\ new_epoch_event_key \in chunk.events) =>
                     IF storage'.ok
                     THEN /\ on_chain_configs' = Some([epoch |-> storage'.epoch,
                                   configs |-> FetchableConfigs(ON_CHAIN_CONFIG_REGISTRY)'])
                          /\ \A i \in Subs :
                                (receivers[i].alive
                                    /\ new_epoch_event_key \in reconfig_subscriptions[i].events) =>
                                        receivers'[i].inbox = on_chain_configs'
                     ELSE /\ receivers' = receivers
                          /\ on_chain_configs' = on_chain_configs
                          /\ Unwrap(outcome').publish = Some("Err")]_vars

\* a chunk that started an epoch was committed, the publishing reached a
\* dropped receiver and failed, and execute_chunk answered Ok
C29_Witness ==
    /\ IsCall("execute_chunk")
    /\ Returns = "Ok"
    /\ Unwrap(outcome).publish = Some("Err")
    /\ storage.ok
    /\ \E i \in Subs : ~receivers[i].alive
    /\ \E i \in Subs : receivers[i].alive /\ receivers[i].inbox = on_chain_configs
    /\ Unwrap(on_chain_configs).epoch = storage.epoch
    /\ storage.epoch > 1

====
